---------------------------- MODULE Spec2Model ----------------------------
(***************************************************************************)
(* A model of the FileManager of Coco-the-coding-agent                      *)
(* (src/dist/utils/fileManager.d.ts): folder-name sanitization, extraction  *)
(* of file artifacts from markdown, the project writer over a filesystem,   *)
(* and the tree renderer.                                                   *)
(*                                                                          *)
(* Strings are sequences of one-character strings, so that the regular      *)
(* expressions and string methods of the source are modelled by what they   *)
(* do on characters.  Absolute paths are sequences of path segments.        *)
(***************************************************************************)
EXTENDS Integers, Sequences, FiniteSets, TLC

VARIABLES
    fs,     \* the filesystem: [dirs: set of paths, files: path -> content]
    now,    \* the clock read by Date.now()
    calls,  \* number of FileManager operations performed so far
    last    \* the most recent operation: its name, inputs, outputs

vars == <<fs, now, calls, last>>

---------------------------------------------------------------------------
(* Characters and the string methods the source uses.                      *)

Lower == {"a","b","c","d","e","f","g","h","i","j","k","l","m",
          "n","o","p","q","r","s","t","u","v","w","x","y","z"}
Upper == {"A","B","C","D","E","F","G","H","I","J","K","L","M",
          "N","O","P","Q","R","S","T","U","V","W","X","Y","Z"}
Digit == {"0","1","2","3","4","5","6","7","8","9"}

\* \s of a JavaScript regular expression, and the characters trim() removes
WsChars == {" ", "\t", "\n", "\r"}
IsWs(c) == c \in WsChars
\* \w of a JavaScript regular expression
WordChars == Lower \cup Upper \cup Digit \cup {"_"}

Min(S) == CHOOSE x \in S : \A y \in S : x <= y
Max(S) == CHOOSE x \in S : \A y \in S : x >= y
\* the least element of S, or d when S is empty
MinOr(S, d) == IF S = {} THEN d ELSE Min(S)

\* s.substring(i-1) for a 1-based i
From(s, i) == SubSeq(s, i, Len(s))

\* s.substring(0, n)
Prefix(s, n) == SubSeq(s, 1, IF Len(s) < n THEN Len(s) ELSE n)

\* s.startsWith(lit, i-1)
StartsWithAt(s, i, lit) ==
    /\ i >= 1
    /\ i + Len(lit) - 1 <= Len(s)
    /\ \A k \in 1..Len(lit) : s[i + k - 1] = lit[k]

\* s.indexOf(lit, from-1) + 1, with 0 for "not found"
IndexOf(s, lit, from) ==
    MinOr({i \in from..(Len(s) - Len(lit) + 1) : StartsWithAt(s, i, lit)}, 0)

\* s.includes(lit)
Includes(s, lit) == IndexOf(s, lit, 1) # 0

\* s.trim()
Between(s, keep) == IF keep = {} THEN <<>> ELSE SubSeq(s, Min(keep), Max(keep))
Trim(s) == Between(s, {i \in 1..Len(s) : ~IsWs(s[i])})

\* the end (exclusive) of the maximal run of characters of the set S from i
RECURSIVE RunEnd(_, _, _)
RunEnd(s, i, S) ==
    IF i <= Len(s) /\ s[i] \in S THEN RunEnd(s, i + 1, S) ELSE i

\* Number.prototype.toString for a natural number
RECURSIVE ToDigits(_)
ToDigits(n) ==
    LET d == <<"0","1","2","3","4","5","6","7","8","9">>[(n % 10) + 1]
    IN  IF n < 10 THEN <<d>> ELSE ToDigits(n \div 10) \o <<d>>

\* the concatenation of a sequence of strings
RECURSIVE Concat(_)
Concat(ss) == IF ss = <<>> THEN <<>> ELSE Head(ss) \o Concat(Tail(ss))

\* n copies of the string s
RECURSIVE Repeat(_, _)
Repeat(s, n) == IF n = 0 THEN <<>> ELSE s \o Repeat(s, n - 1)

\* all strings over alphabet A of length at most n
RECURSIVE StringsUpTo(_, _)
StringsUpTo(A, n) ==
    IF n = 0 THEN {<<>>}
    ELSE LET shorter == StringsUpTo(A, n - 1)
         IN  shorter \cup {<<a>> \o s : a \in A, s \in {t \in shorter : Len(t) = n - 1}}

---------------------------------------------------------------------------
(* FileManager.sanitizeFolderName                                          *)

\* .substring(0, 50)
MaxFolderLen == 50

FallbackName == <<"c","o","d","i","n","g","_","t","a","s","k">>

\* the class [a-zA-Z0-9\s\-_] whose complement the first replace removes
IsFolderChar(c) == c \in Lower \cup Upper \cup Digit \cup {"-", "_"} \/ IsWs(c)

\* .replace(/\s+/g, "_")
RECURSIVE CollapseWs(_)
CollapseWs(s) ==
    IF s = <<>> THEN <<>>
    ELSE IF IsWs(Head(s))
         THEN <<"_">> \o CollapseWs(From(s, RunEnd(s, 1, WsChars)))
         ELSE <<Head(s)>> \o CollapseWs(Tail(s))

\* if (!sanitized) sanitized = "coding_task"
OrFallbackName(sanitized) == IF sanitized = <<>> THEN FallbackName ELSE sanitized

\* a sanitizeFolderName whose first replace also removes underscores
sanitizeFolderName_noUnderscore(task) ==
    OrFallbackName(Prefix(CollapseWs(Trim(
        SelectSeq(task, LAMBDA c : IsFolderChar(c) /\ c # "_"))), MaxFolderLen))

\* a sanitizeFolderName whose first replace keeps the space only and removes
\* every other white space
sanitizeFolderName_spaceOnly(task) ==
    OrFallbackName(Prefix(CollapseWs(Trim(
        SelectSeq(task, LAMBDA c : IsFolderChar(c) /\ (IsWs(c) => c = " ")))),
        MaxFolderLen))

sanitizeFolderName(task) ==
    OrFallbackName(Prefix(CollapseWs(Trim(SelectSeq(task, IsFolderChar))),
                          MaxFolderLen))

---------------------------------------------------------------------------
(* String literals of the source.                                          *)

\* U+0060, the fence character, which a TLA+ string literal cannot hold
Backtick == "BACKTICK"
Fence == <<Backtick, Backtick, Backtick>>
FileKw == <<"F","i","l","e",":">>
SlashSlash == <<"/","/">>
Hash == <<"#">>
HtmlOpen == <<"<","!","-","-">>
HtmlClose == <<"-","-",">">>
StarOpen == <<"/","*">>
StarClose == <<"*","/">>
DotSlash == <<".","/">>
Slash == <<"/">>
MainName == <<"m","a","i","n">>
FileName == <<"f","i","l","e">>
ExtJs == <<".","j","s">>
ExtPy == <<".","p","y">>
ExtJava == <<".","j","a","v","a">>
ExtHtml == <<".","h","t","m","l">>
ExtCss == <<".","c","s","s">>
ExtPhp == <<".","p","h","p">>
ExtTxt == <<".","t","x","t">>
KwDoctype == <<"<","!","D","O","C","T","Y","P","E">>
KwHtml == <<"<","h","t","m","l">>
KwMedia == <<"@","m","e","d","i","a">>
KwBrace == <<"{">>
KwImportSp == <<"i","m","p","o","r","t"," ">>
KwFromSp == <<"f","r","o","m"," ">>
KwRequire == <<"r","e","q","u","i","r","e","(">>
KwDefSp == <<"d","e","f"," ">>
KwPrint == <<"p","r","i","n","t","(">>
KwConsole == <<"c","o","n","s","o","l","e",".">>
KwPackageSp == <<"p","a","c","k","a","g","e"," ">>
KwPublicClass == <<"p","u","b","l","i","c"," ","c","l","a","s","s">>
KwPhp == <<"<","?","p","h","p">>
KwFunction == <<"f","u","n","c","t","i","o","n">>
KwClass == <<"c","l","a","s","s">>
KwImport == <<"i","m","p","o","r","t">>

UpperSeq == <<"A","B","C","D","E","F","G","H","I","J","K","L","M",
              "N","O","P","Q","R","S","T","U","V","W","X","Y","Z">>
LowerSeq == <<"a","b","c","d","e","f","g","h","i","j","k","l","m",
              "n","o","p","q","r","s","t","u","v","w","x","y","z">>

\* s.toLowerCase()
toLowerCase(s) ==
    [i \in 1..Len(s) |->
        IF s[i] \in Upper
        THEN LowerSeq[CHOOSE k \in 1..26 : UpperSeq[k] = s[i]]
        ELSE s[i]]

\* the position of the first "\n" at or after i, or Len(s) + 1
LineEnd(s, i) == MinOr({j \in i..Len(s) : s[j] = "\n"}, Len(s) + 1)

\* the positions where ^ matches under the m flag
IsLineStart(s, i) ==
    i = 1 \/ (i > 1 /\ i <= Len(s) + 1 /\ s[i - 1] \in {"\n", "\r"})

NoMatch == [ok |-> FALSE]

---------------------------------------------------------------------------
(* FileManager.getExtensionFromLanguage                                    *)

languageMap ==
    << << <<"j","a","v","a","s","c","r","i","p","t">>, <<".","j","s">> >>,
       << <<"j","s">>, <<".","j","s">> >>,
       << <<"t","y","p","e","s","c","r","i","p","t">>, <<".","t","s">> >>,
       << <<"t","s">>, <<".","t","s">> >>,
       << <<"p","y","t","h","o","n">>, <<".","p","y">> >>,
       << <<"p","y">>, <<".","p","y">> >>,
       << <<"j","a","v","a">>, <<".","j","a","v","a">> >>,
       << <<"h","t","m","l">>, <<".","h","t","m","l">> >>,
       << <<"c","s","s">>, <<".","c","s","s">> >>,
       << <<"j","s","o","n">>, <<".","j","s","o","n">> >>,
       << <<"x","m","l">>, <<".","x","m","l">> >>,
       << <<"y","a","m","l">>, <<".","y","a","m","l">> >>,
       << <<"y","m","l">>, <<".","y","m","l">> >>,
       << <<"m","a","r","k","d","o","w","n">>, <<".","m","d">> >>,
       << <<"m","d">>, <<".","m","d">> >>,
       << <<"s","q","l">>, <<".","s","q","l">> >>,
       << <<"s","h">>, <<".","s","h">> >>,
       << <<"b","a","s","h">>, <<".","s","h">> >>,
       << <<"g","o">>, <<".","g","o">> >>,
       << <<"r","u","s","t">>, <<".","r","s">> >>,
       << <<"c","p","p">>, <<".","c","p","p">> >>,
       << <<"c">>, <<".","c">> >>,
       << <<"p","h","p">>, <<".","p","h","p">> >>,
       << <<"r","u","b","y">>, <<".","r","b">> >>,
       << <<"s","w","i","f","t">>, <<".","s","w","i","f","t">> >>,
       << <<"k","o","t","l","i","n">>, <<".","k","t">> >> >>

getExtensionFromLanguage(language) ==
    LET hits == {k \in 1..Len(languageMap) :
                    languageMap[k][1] = toLowerCase(language)}
    IN  IF hits = {} THEN ExtTxt ELSE languageMap[CHOOSE k \in hits : TRUE][2]

---------------------------------------------------------------------------
(* FileManager.inferExtensionFromContent                                   *)

\* content.match(/[.#][\w-]+\s*{/)
MatchesCssSelector(content) ==
    \E i \in 1..Len(content) :
        /\ content[i] \in {".", "#"}
        /\ LET r == RunEnd(content, i + 1, WordChars \cup {"-"})
           IN  /\ r > i + 1
               /\ StartsWithAt(content, RunEnd(content, r, WsChars), KwBrace)

\* content.match(/^[\s]*<[\w]+/)
StartsWithTag(content) ==
    LET a == RunEnd(content, 1, WsChars)
    IN  /\ a + 1 <= Len(content)
        /\ content[a] = "<"
        /\ content[a + 1] \in WordChars

\* an inferExtensionFromContent whose PHP rule asks for "<?php" at the start
inferExtensionFromContent_phpAtStart(content) ==
    IF Includes(content, KwDoctype) \/ Includes(content, KwHtml) THEN ExtHtml
    ELSE IF /\ Includes(content, KwMedia) \/ Includes(content, KwBrace)
            /\ MatchesCssSelector(content) THEN ExtCss
    ELSE IF Includes(content, KwImportSp) /\ Includes(content, KwFromSp) THEN ExtJs
    ELSE IF Includes(content, KwRequire) THEN ExtJs
    ELSE IF /\ Includes(content, KwDefSp) \/ Includes(content, KwImportSp)
            /\ Includes(content, KwPrint)
            /\ ~Includes(content, KwConsole) THEN ExtPy
    ELSE IF Includes(content, KwPackageSp) \/ Includes(content, KwPublicClass)
         THEN ExtJava
    ELSE IF StartsWithAt(content, 1, KwPhp) THEN ExtPhp
    ELSE IF StartsWithTag(content) THEN ExtHtml
    ELSE ExtJs

inferExtensionFromContent(content) ==
    IF Includes(content, KwDoctype) \/ Includes(content, KwHtml) THEN ExtHtml
    ELSE IF /\ Includes(content, KwMedia) \/ Includes(content, KwBrace)
            /\ MatchesCssSelector(content) THEN ExtCss
    ELSE IF Includes(content, KwImportSp) /\ Includes(content, KwFromSp) THEN ExtJs
    ELSE IF Includes(content, KwRequire) THEN ExtJs
    ELSE IF /\ Includes(content, KwDefSp) \/ Includes(content, KwImportSp)
            /\ Includes(content, KwPrint)
            /\ ~Includes(content, KwConsole) THEN ExtPy
    ELSE IF Includes(content, KwPackageSp) \/ Includes(content, KwPublicClass)
         THEN ExtJava
    ELSE IF Includes(content, KwPhp) THEN ExtPhp
    ELSE IF StartsWithTag(content) THEN ExtHtml
    ELSE ExtJs

---------------------------------------------------------------------------
(* FileManager.parseCodeFiles                                              *)

\* codeBlockPattern /FENCE(\w+)?(?::([^\n]+))?\n([\s\S]*?)FENCE/ tried at
\* position i: the fence, the longest run of word characters (to b), an
\* optional ":" with the non-empty rest of the line, a newline (at hdrEnd),
\* and the shortest body that a fence (at close) follows
MatchClose(s, i, b, path, hdrEnd, close) ==
    IF close # 0
    THEN [ok       |-> TRUE,
          at       |-> i,
          language |-> SubSeq(s, i + 3, b - 1),
          path     |-> path,
          body     |-> SubSeq(s, hdrEnd + 1, close - 1),
          end      |-> close + 3]
    ELSE NoMatch

MatchBody(s, i, b, path, hdrEnd) ==
    IF hdrEnd <= Len(s) /\ s[hdrEnd] = "\n"
    THEN MatchClose(s, i, b, path, hdrEnd, IndexOf(s, Fence, hdrEnd + 1))
    ELSE NoMatch

MatchPath(s, i, b, e) ==
    IF e > b + 1 /\ e <= Len(s)
    THEN MatchBody(s, i, b, SubSeq(s, b + 1, e - 1), e)
    ELSE NoMatch

MatchHeader(s, i, b) ==
    IF b <= Len(s) /\ s[b] = ":"
    THEN MatchPath(s, i, b, LineEnd(s, b + 1))
    ELSE MatchBody(s, i, b, <<>>, b)

MatchBlockAt(s, i) ==
    IF StartsWithAt(s, i, Fence)
    THEN MatchHeader(s, i, RunEnd(s, i + 3, WordChars))
    ELSE NoMatch

LeftmostBlock(s, hits) ==
    IF hits = {} THEN NoMatch ELSE MatchBlockAt(s, Min(hits))

\* codeBlockPattern.exec(codeMarkdown) with lastIndex = pos - 1
ExecBlock(s, pos) ==
    LeftmostBlock(s, {i \in pos..Len(s) : MatchBlockAt(s, i).ok})

\* "M\s*File:" tried at position i, for a comment opener M: the position
\* after the colon, or 0
AfterFileKw(s, a) ==
    IF StartsWithAt(s, a, FileKw) THEN a + Len(FileKw) ELSE 0

FilePrefixEnd(s, i, M) ==
    IF StartsWithAt(s, i, M)
    THEN AfterFileKw(s, RunEnd(s, i + Len(M), WsChars))
    ELSE 0

CaptureLine(s, i, starts) ==
    IF starts = {} THEN NoMatch
    ELSE [ok |-> TRUE, at |-> i,
          cap |-> SubSeq(s, Max(starts), LineEnd(s, Max(starts)) - 1)]

\* "\s*([^\n]+)" from position b: the \s* is greedy and gives characters
\* back until a character other than "\n" is left for the group
LineCapture(s, i, b) ==
    IF b = 0 THEN NoMatch
    ELSE CaptureLine(s, i, {j \in b..RunEnd(s, b, WsChars) :
                                j <= Len(s) /\ s[j] # "\n"})

\* /^M\s*File:\s*([^\n]+)/ tried at position i, for M = "//" or "#"
LineCommentAt(s, i, M) == LineCapture(s, i, FilePrefixEnd(s, i, M))

HtmlGroup(s, i, cands, j) ==
    [ok |-> TRUE, at |-> i,
     cap |-> SubSeq(s, j, Max({jk[2] : jk \in {x \in cands : x[1] = j}}) - 1)]

HtmlPick(s, i, cands) ==
    IF cands = {} THEN NoMatch
    ELSE HtmlGroup(s, i, cands, Max({jk[1] : jk \in cands}))

\* "\s*([^\n]+)\s*-->" from position b: the group starts as late as the
\* greedy \s* allows and is the longest stretch of its line that "\s*-->"
\* follows
HtmlCapture(s, i, b) ==
    IF b = 0 THEN NoMatch
    ELSE HtmlPick(s, i,
            {jk \in (b..RunEnd(s, b, WsChars)) \X (b..(Len(s) + 1)) :
                /\ jk[1] <= Len(s)
                /\ s[jk[1]] # "\n"
                /\ jk[2] > jk[1]
                /\ jk[2] <= LineEnd(s, jk[1])
                /\ StartsWithAt(s, RunEnd(s, jk[2], WsChars), HtmlClose)})

\* /^<!--\s*File:\s*([^\n]+)\s*-->/ tried at position i
HtmlCommentAt(s, i) == HtmlCapture(s, i, FilePrefixEnd(s, i, HtmlOpen))

\* the group [^*]+ from j, the later of the end c of the white space and
\* the character before the first "*" (at k), which must begin "*/"
StarGroup(s, i, b, j, k) ==
    IF k # 0 /\ StartsWithAt(s, k, StarClose) /\ j >= b
    THEN [ok |-> TRUE, at |-> i, cap |-> SubSeq(s, j, k - 1)]
    ELSE NoMatch

StarFrom(s, i, b, c, k) == StarGroup(s, i, b, IF c < k THEN c ELSE k - 1, k)

StarCapture(s, i, b) ==
    IF b = 0 THEN NoMatch
    ELSE StarFrom(s, i, b, RunEnd(s, b, WsChars), IndexOf(s, <<"*">>, b))

\* /\/\*\s*File:\s*([^*]+)\*\// tried at position i
StarCommentAt(s, i) == StarCapture(s, i, FilePrefixEnd(s, i, StarOpen))

\* commentPatterns[n - 1] tried at position i
CommentAt(content, i, n) ==
    CASE n = 1 -> LineCommentAt(content, i, SlashSlash)
      [] n = 2 -> LineCommentAt(content, i, Hash)
      [] n = 3 -> HtmlCommentAt(content, i)
      [] n = 4 -> StarCommentAt(content, i)

LeftmostComment(content, n, hits) ==
    IF hits = {} THEN NoMatch ELSE CommentAt(content, Min(hits), n)

\* actualContent.match(commentPatterns[n - 1]): the leftmost match; the
\* first three patterns are anchored at line starts
CommentMatch(content, n) ==
    LeftmostComment(content, n,
        {i \in 1..Len(content) :
            (n = 4 \/ IsLineStart(content, i)) /\ CommentAt(content, i, n).ok})

\* the loop over commentPatterns from the n-th on: the group of the first
\* pattern, in the order of the array, that matches (trimmed); "" when none
\* matches
RECURSIVE CommentLoop(_, _)
CommentTake(content, n, commentMatch) ==
    IF commentMatch.ok THEN Trim(commentMatch.cap)
    ELSE CommentLoop(content, n + 1)

CommentLoop(content, n) ==
    IF n > 4 THEN <<>> ELSE CommentTake(content, n, CommentMatch(content, n))

CommentPath(content) == CommentLoop(content, 1)

\* main<ext> for the first accepted block, file<blockIndex+1><ext> after it
IndexName(blockIndex, ext) ==
    IF blockIndex = 0 THEN MainName \o ext
    ELSE FileName \o ToDigits(blockIndex + 1) \o ext

\* filePath.replace(/^\.?\//, "")
StripLeadingSlash(filePath) ==
    IF StartsWithAt(filePath, 1, DotSlash) THEN From(filePath, 3)
    ELSE IF StartsWithAt(filePath, 1, Slash) THEN From(filePath, 2)
    ELSE filePath

\* priorities 1 and 2: the explicit path, else the path of a File: comment
\* of a body that is not blank
HeaderOrCommentPath(explicitPath, actualContent) ==
    IF explicitPath # <<>> THEN explicitPath
    ELSE IF Trim(actualContent) # <<>> THEN CommentPath(actualContent)
    ELSE <<>>

\* priority 3: without a path so far, a name from the block index and the
\* extension of the language tag or, without a tag, of the content
OrIndexName(filePath, language, actualContent, blockIndex) ==
    IF filePath # <<>> THEN filePath
    ELSE IF language # <<>>
         THEN IndexName(blockIndex, getExtensionFromLanguage(language))
         ELSE IndexName(blockIndex, inferExtensionFromContent(actualContent))

\* a path resolution in which a File: comment beats the explicit path
ResolveFilePath_commentFirst(language, explicitPath, actualContent, blockIndex) ==
    StripLeadingSlash(
        OrIndexName(HeaderOrCommentPath(CommentPath(actualContent), explicitPath),
                    language, actualContent, blockIndex))

\* a path resolution that never looks for a File: comment
ResolveFilePath_noComment(language, explicitPath, actualContent, blockIndex) ==
    StripLeadingSlash(OrIndexName(explicitPath, language, actualContent, blockIndex))

\* the file path of one matched block
ResolveFilePath(language, explicitPath, actualContent, blockIndex) ==
    StripLeadingSlash(
        OrIndexName(HeaderOrCommentPath(explicitPath, actualContent),
                    language, actualContent, blockIndex))

\* a block counter that counts every matched block, blank or not
BlockIndexAfter_countAll(blockIndex, actualContent) == blockIndex + 1

\* blockIndex++ happens only with files.push
BlockIndexAfter(blockIndex, actualContent) ==
    IF Trim(actualContent) # <<>> THEN blockIndex + 1 ELSE blockIndex

\* files.push for a match whose body is not blank
PushFile(files, m, blockIndex) ==
    IF Trim(m.body) # <<>>
    THEN Append(files,
                [filePath |-> ResolveFilePath(m.language, Trim(m.path), m.body,
                                              blockIndex),
                 content  |-> m.body])
    ELSE files

\* the while loop over the matches of codeBlockPattern, from lastIndex
RECURSIVE BlockLoop(_, _, _, _)
BlockStep(s, files, blockIndex, m) ==
    IF ~m.ok THEN files
    ELSE BlockLoop(s, m.end, PushFile(files, m, blockIndex),
                   BlockIndexAfter(blockIndex, m.body))

BlockLoop(s, pos, files, blockIndex) ==
    BlockStep(s, files, blockIndex, ExecBlock(s, pos))

\* one step of codeMarkdown.replace(/^#+\s+/gm, "") at position i, with the
\* end h of the run of "#" and the end w of the white space after it
RECURSIVE StripHeadings(_, _)
StripHeadingAt(s, i, h, w) ==
    IF IsLineStart(s, i) /\ h > i /\ w > h
    THEN StripHeadings(s, w)
    ELSE <<s[i]>> \o StripHeadings(s, i + 1)

StripHeadingRun(s, i, h) == StripHeadingAt(s, i, h, RunEnd(s, h, WsChars))

\* codeMarkdown.replace(/^#+\s+/gm, ""), scanning from position i
StripHeadings(s, i) ==
    IF i > Len(s) THEN <<>> ELSE StripHeadingRun(s, i, RunEnd(s, i, {"#"}))

\* a plain-code test that takes every text that is not empty for code
LooksLikePlainCode_anyText(cleaned) == cleaned # <<>>

\* plainCodePattern.test(cleaned): some line starts with a character other
\* than #, *, U+0060, [ and ]
LooksLikePlainCode(cleaned) ==
    \E i \in 1..Len(cleaned) :
        IsLineStart(cleaned, i) /\ cleaned[i] \notin {"#", "*", Backtick, "[", "]"}

\* the single file of the whole-text fallback, if the text looks like code
FallbackFiles(cleaned) ==
    IF \/ LooksLikePlainCode(cleaned)
       \/ Includes(cleaned, KwFunction)
       \/ Includes(cleaned, KwClass)
       \/ Includes(cleaned, KwImport)
    THEN << [filePath |-> MainName \o inferExtensionFromContent(cleaned),
             content  |-> cleaned] >>
    ELSE <<>>

\* the whole-text fallback
WholeTextFallback(codeMarkdown) ==
    FallbackFiles(Trim(StripHeadings(codeMarkdown, 1)))

\* the fallback is taken when the loop pushed no file and the text is not
\* blank
OrWholeText(codeMarkdown, files) ==
    IF files = <<>> /\ Trim(codeMarkdown) # <<>>
    THEN WholeTextFallback(codeMarkdown)
    ELSE files

parseCodeFiles(codeMarkdown) ==
    OrWholeText(codeMarkdown, BlockLoop(codeMarkdown, 1, <<>>, 0))

---------------------------------------------------------------------------
(* The state shared by all specifications.                                 *)

\* process.cwd(), the default basePath of the constructor
BasePath == << <<"w">> >>

\* the directories, the contents of the regular files, and the directories
\* that cannot be listed (no read permission)
EmptyFs == [dirs |-> {<<>>, BasePath}, files |-> <<>>, unreadable |-> {}]

NoOp == [op |-> "none"]

InitCommon ==
    /\ fs = EmptyFs
    /\ now = 1
    /\ calls = 0
    /\ last = NoOp

---------------------------------------------------------------------------
(* Paths (node:path on POSIX) and the filesystem calls of node:fs.  The    *)
(* filesystem is the set of directories and the contents of the regular    *)
(* files, by absolute path.  A call of the FileManager runs in a world w:  *)
(* the filesystem, the number n of mkdir and writeFile calls issued so     *)
(* far, and the log of these calls with their error codes.  The mkdir or   *)
(* writeFile call with ordinal fault fails for an external reason (EACCES: *)
(* permissions, a full disk, ...); fault = 0 is a run without such a       *)
(* failure.                                                                *)

\* String.prototype.split("/"): the segments between the slashes
RECURSIVE Split(_)
SplitAt(s, k) ==
    IF k = 0 THEN <<s>> ELSE <<Prefix(s, k - 1)>> \o Split(From(s, k + 1))

Split(s) == SplitAt(s, IndexOf(s, Slash, 1))

\* path.normalize, one segment at a time: empty and "." segments vanish and
\* ".." removes the segment before it (nothing is above the root)
NormalizeStep(dir, seg) ==
    IF seg = <<>> \/ seg = <<".">> THEN dir
    ELSE IF seg = <<".", ".">>
         THEN IF dir = <<>> THEN <<>> ELSE Prefix(dir, Len(dir) - 1)
         ELSE Append(dir, seg)

RECURSIVE Normalize(_, _, _)
Normalize(dir, segs, i) ==
    IF i > Len(segs) THEN dir
    ELSE Normalize(NormalizeStep(dir, segs[i]), segs, i + 1)

\* path.join(dir, rel) for an absolute normalized dir: the normalized path
\* and whether it keeps a trailing slash
Join(dir, rel) ==
    [path  |-> Normalize(dir, Split(rel), 1),
     slash |-> rel # <<>> /\ rel[Len(rel)] = "/"]

\* path.dirname of a normalized absolute path
Dirname(p) == IF p = <<>> THEN <<>> ELSE Prefix(p, Len(p) - 1)

\* path.basename
Basename(p) == IF p = <<>> THEN <<>> ELSE p[Len(p)]

IsDir(f, p) == p \in f.dirs
IsFile(f, p) == p \in DOMAIN f.files

Logged(w, call, p, rel, code, f) ==
    [fs  |-> f,
     n   |-> w.n + 1,
     log |-> Append(w.log, [call |-> call, path |-> p, rel |-> rel,
                            code |-> code])]

\* the error code of fs.mkdir(p, {recursive: true}): "" for success
MkdirCode(w, p, fault) ==
    IF w.n + 1 = fault THEN "EACCES"
    ELSE IF IsFile(w.fs, p) THEN "EEXIST"
    ELSE IF \E k \in 0..(Len(p) - 1) : IsFile(w.fs, Prefix(p, k)) THEN "ENOTDIR"
    ELSE ""

MkdirDone(w, p, code) ==
    [w    |-> Logged(w, "mkdir", p, <<>>, code,
                     IF code = ""
                     THEN [w.fs EXCEPT
                             !.dirs = @ \cup {Prefix(p, k) : k \in 0..Len(p)}]
                     ELSE w.fs),
     code |-> code]

\* fs.mkdir(p, {recursive: true})
Mkdir(w, p, fault) == MkdirDone(w, p, MkdirCode(w, p, fault))

\* the error code of fs.writeFile(full, content): "" for success
WriteFileCode(w, full, fault) ==
    IF w.n + 1 = fault THEN "EACCES"
    ELSE IF full.slash \/ IsDir(w.fs, full.path) THEN "EISDIR"
    ELSE IF IsFile(w.fs, Dirname(full.path)) THEN "ENOTDIR"
    ELSE IF ~IsDir(w.fs, Dirname(full.path)) THEN "ENOENT"
    ELSE ""

WriteFileDone(w, full, rel, content, code) ==
    [w    |-> Logged(w, "writeFile", full.path, rel, code,
                     IF code = ""
                     THEN [w.fs EXCEPT
                             !.files = [p \in DOMAIN @ \cup {full.path} |->
                                          IF p = full.path THEN content ELSE @[p]]]
                     ELSE w.fs),
     code |-> code]

\* fs.writeFile(full, content, "utf-8"), for the artifact path rel
WriteFile(w, full, rel, content, fault) ==
    WriteFileDone(w, full, rel, content, WriteFileCode(w, full, fault))

---------------------------------------------------------------------------
(* FileManager.ensureDirectory, writeFilesToFolder and writeFiles.  A      *)
(* result is the world after the call, the error thrown (NoError for a     *)
(* normal return) and the returned folderPath and files.                   *)

NoError == [kind |-> "", path |-> <<>>, dir |-> <<>>]

ErrNoFiles == [kind |-> "No files found in generated code", path |-> <<>>,
               dir |-> <<>>]

ErrMkdir(dirPath) ==
    [kind |-> "Failed to create directory", path |-> <<>>, dir |-> dirPath]

ErrWrite(filePath) ==
    [kind |-> "Failed to write file", path |-> filePath, dir |-> <<>>]

Thrown(w, err) == [w |-> w, err |-> err, folderPath |-> <<>>, files |-> <<>>]

\* the catch of ensureDirectory: EEXIST is swallowed
EnsureCatch(dirPath, r) ==
    [w   |-> r.w,
     err |-> IF r.code = "" \/ r.code = "EEXIST" THEN NoError
             ELSE ErrMkdir(dirPath)]

\* an ensureDirectory that fails when the directory is already there
ensureDirectory_failIfExists(w, dirPath, fault) ==
    IF IsDir(w.fs, dirPath)
    THEN [w |-> Mkdir(w, dirPath, fault).w, err |-> ErrMkdir(dirPath)]
    ELSE EnsureCatch(dirPath, Mkdir(w, dirPath, fault))

ensureDirectory(w, dirPath, fault) ==
    EnsureCatch(dirPath, Mkdir(w, dirPath, fault))

\* the loop of writeFilesToFolder from the i-th file on
RECURSIVE WriteLoop(_, _, _, _, _, _)
AfterWrite(folderPath, files, i, createdFiles, fault, r) ==
    IF r.code # "" THEN Thrown(r.w, ErrWrite(files[i].filePath))
    ELSE WriteLoop(r.w, folderPath, files, i + 1,
                   Append(createdFiles, files[i].filePath), fault)

WriteOne(w, folderPath, files, i, createdFiles, fault, fullFilePath) ==
    AfterWrite(folderPath, files, i, createdFiles, fault,
               WriteFile(w, fullFilePath, files[i].filePath, files[i].content,
                         fault))

AfterEnsure(folderPath, files, i, createdFiles, fault, fullFilePath, r) ==
    IF r.err # NoError THEN Thrown(r.w, r.err)
    ELSE WriteOne(r.w, folderPath, files, i, createdFiles, fault, fullFilePath)

EnsureFileDir(w, folderPath, files, i, createdFiles, fault, fullFilePath) ==
    IF Dirname(fullFilePath.path) # folderPath
    THEN AfterEnsure(folderPath, files, i, createdFiles, fault, fullFilePath,
                     ensureDirectory(w, Dirname(fullFilePath.path), fault))
    ELSE WriteOne(w, folderPath, files, i, createdFiles, fault, fullFilePath)

WriteLoop(w, folderPath, files, i, createdFiles, fault) ==
    IF i > Len(files)
    THEN [w |-> w, err |-> NoError, folderPath |-> folderPath,
          files |-> createdFiles]
    ELSE EnsureFileDir(w, folderPath, files, i, createdFiles, fault,
                       Join(folderPath, files[i].filePath))

writeFilesToFolder(w, folderPath, files, fault) ==
    WriteLoop(w, folderPath, files, 1, <<>>, fault)

\* path.join(this.basePath, folderName)
FolderPath(folderName) == Append(BasePath, folderName)

\* folderName_timestamp
UniqueFolderName(folderName, timestamp) ==
    folderName \o <<"_">> \o ToDigits(timestamp)

AfterCatchEnsure(folderName, parsedFiles, fault, r) ==
    IF r.err # NoError THEN Thrown(r.w, r.err)
    ELSE writeFilesToFolder(r.w, FolderPath(folderName), parsedFiles, fault)

\* the catch block of writeFiles and the statement after it
CatchAndWrite(w, folderName, parsedFiles, fault) ==
    AfterCatchEnsure(folderName, parsedFiles, fault,
                     ensureDirectory(w, FolderPath(folderName), fault))

\* return await this.writeFilesToFolder(newFolderPath, parsedFiles) inside
\* the try block: a rejection is caught by the catch of writeFiles
AfterUniqueWrite(folderName, parsedFiles, fault, r) ==
    IF r.err # NoError THEN CatchAndWrite(r.w, folderName, parsedFiles, fault)
    ELSE r

\* await this.ensureDirectory(newFolderPath) inside the try block
AfterUniqueEnsure(folderName, newFolderPath, parsedFiles, fault, r) ==
    IF r.err # NoError THEN CatchAndWrite(r.w, folderName, parsedFiles, fault)
    ELSE AfterUniqueWrite(folderName, parsedFiles, fault,
             writeFilesToFolder(r.w, newFolderPath, parsedFiles, fault))

\* the branch of an existing directory
UseUniqueFolder(w, folderName, newFolderPath, parsedFiles, fault) ==
    AfterUniqueEnsure(folderName, newFolderPath, parsedFiles, fault,
                      ensureDirectory(w, newFolderPath, fault))

\* the try/catch around fs.stat(folderPath): stat rejects when nothing is
\* at folderPath; a regular file there leaves the try block normally
StatAndWrite(w, folderName, parsedFiles, fault, timestamp) ==
    IF IsDir(w.fs, FolderPath(folderName))
    THEN UseUniqueFolder(w, folderName,
                         FolderPath(UniqueFolderName(folderName, timestamp)),
                         parsedFiles, fault)
    ELSE IF IsFile(w.fs, FolderPath(folderName))
         THEN writeFilesToFolder(w, FolderPath(folderName), parsedFiles, fault)
         ELSE CatchAndWrite(w, folderName, parsedFiles, fault)

\* a writeFiles that creates the task folder before it looks at the parsed
\* files
WriteParsed_folderFirst(w, folderName, parsedFiles, fault, timestamp) ==
    IF parsedFiles = <<>>
    THEN Thrown(ensureDirectory(w, FolderPath(folderName), fault).w, ErrNoFiles)
    ELSE StatAndWrite(w, folderName, parsedFiles, fault, timestamp)

\* writeFiles after parsing
WriteParsed(w, folderName, parsedFiles, fault, timestamp) ==
    IF parsedFiles = <<>> THEN Thrown(w, ErrNoFiles)
    ELSE StatAndWrite(w, folderName, parsedFiles, fault, timestamp)

\* writeFiles(task, codeMarkdown) on the filesystem f, with Date.now() =
\* timestamp
writeFiles(f, task, codeMarkdown, fault, timestamp) ==
    WriteParsed([fs |-> f, n |-> 0, log |-> <<>>], sanitizeFolderName(task),
                parseCodeFiles(codeMarkdown), fault, timestamp)

---------------------------------------------------------------------------
(* FileManager.generateDirectoryTreeFromFilesystem and buildTreeRecursive. *)
(* A line of the tree is a sequence of tokens: the units of its prefix,    *)
(* its connector, a space, the characters of the entry's name and, for a   *)
(* directory, a slash.                                                     *)

\* the connectors U+251C U+2500 U+2500 and U+2514 U+2500 U+2500, and the
\* prefix units U+2502 with two spaces and three spaces
Tee == "|--"
Elbow == "L--"
Bar == "|  "
Gap == "   "

\* the characters the names of the model are made of, in the order of the
\* collation of String.prototype.localeCompare (punctuation, digits,
\* letters; a letter's case decides only between otherwise equal names,
\* lower case first)
CollationOrder ==
    <<"_", "-", ".">> \o
    <<"0", "1", "2", "3", "4", "5", "6", "7", "8", "9">> \o LowerSeq

Rank(c) == CHOOSE k \in 1..Len(CollationOrder) : CollationOrder[k] = c

\* the comparison of the primary weights from position i on
RECURSIVE PrimaryCompare(_, _, _)
PrimaryCompare(a, b, i) ==
    IF i > Len(a) /\ i > Len(b) THEN 0
    ELSE IF i > Len(a) THEN -1
    ELSE IF i > Len(b) THEN 1
    ELSE IF Rank(a[i]) < Rank(b[i]) THEN -1
    ELSE IF Rank(a[i]) > Rank(b[i]) THEN 1
    ELSE PrimaryCompare(a, b, i + 1)

\* the comparison of the cases of names with equal primary weights
RECURSIVE CaseCompare(_, _, _)
CaseCompare(a, b, i) ==
    IF i > Len(a) THEN 0
    ELSE IF a[i] = b[i] THEN CaseCompare(a, b, i + 1)
    ELSE IF a[i] \in Lower THEN -1 ELSE 1

PrimaryOrCase(a, b, primary) ==
    IF primary # 0 THEN primary ELSE CaseCompare(a, b, 1)

\* a.localeCompare(b)
localeCompare(a, b) ==
    PrimaryOrCase(a, b, PrimaryCompare(toLowerCase(a), toLowerCase(b), 1))

\* a comparator that does not put directories first
compareEntries_byName(f, dirPath, a, b) == localeCompare(a, b)

\* the comparator of entries.sort, on the names of two entries of dirPath
compareEntries(f, dirPath, a, b) ==
    IF IsDir(f, Append(dirPath, a)) /\ ~IsDir(f, Append(dirPath, b)) THEN -1
    ELSE IF ~IsDir(f, Append(dirPath, a)) /\ IsDir(f, Append(dirPath, b)) THEN 1
    ELSE localeCompare(a, b)

\* fs.readdir(dirPath): the names of the entries of a directory
Readdir(f, dirPath) ==
    {Basename(p) : p \in {q \in f.dirs \cup DOMAIN f.files :
                            q # <<>> /\ Dirname(q) = dirPath}}

\* entries.sort(comparator): the names in the order of the comparator
RECURSIVE SortEntries(_, _, _)
SortFrom(f, dirPath, entries, first) ==
    <<first>> \o SortEntries(f, dirPath, entries \ {first})

SortEntries(f, dirPath, entries) ==
    IF entries = {} THEN <<>>
    ELSE SortFrom(f, dirPath, entries,
             CHOOSE a \in entries :
                 \A b \in entries : compareEntries(f, dirPath, a, b) <= 0)

\* a prefix that continues the vertical line below every directory
NextPrefix_alwaysBar(prefix, isRoot, isLast) ==
    IF isRoot THEN <<Bar>> ELSE Append(prefix, Bar)

NextPrefix(prefix, isRoot, isLast) ==
    IF isRoot THEN << IF isLast THEN Gap ELSE Bar >>
    ELSE Append(prefix, IF isLast THEN Gap ELSE Bar)

TreeLine(prefix, isRoot, isLast, name, isDirectory) ==
    (IF isRoot THEN <<>> ELSE prefix) \o <<IF isLast THEN Elbow ELSE Tee, " ">> \o name
        \o (IF isDirectory THEN <<"/">> ELSE <<>>)

RECURSIVE buildTreeRecursive(_, _, _, _)
\* the for loop of buildTreeRecursive from the i-th sorted entry on
RECURSIVE EntryLoop(_, _, _, _, _, _)
EntryLoop(f, dirPath, prefix, isRoot, sortedEntries, i) ==
    IF i > Len(sortedEntries) THEN <<>>
    ELSE IF IsDir(f, Append(dirPath, sortedEntries[i]))
    THEN <<TreeLine(prefix, isRoot, i = Len(sortedEntries), sortedEntries[i], TRUE)>>
         \o buildTreeRecursive(f, Append(dirPath, sortedEntries[i]),
                NextPrefix(prefix, isRoot, i = Len(sortedEntries)), FALSE)
         \o EntryLoop(f, dirPath, prefix, isRoot, sortedEntries, i + 1)
    ELSE <<TreeLine(prefix, isRoot, i = Len(sortedEntries), sortedEntries[i], FALSE)>>
         \o EntryLoop(f, dirPath, prefix, isRoot, sortedEntries, i + 1)

\* a buildTreeRecursive whose readdir succeeds on every directory
buildTreeRecursive_alwaysReadable(f, dirPath, prefix, isRoot) ==
    IF ~IsDir(f, dirPath) THEN <<>>
    ELSE EntryLoop(f, dirPath, prefix, isRoot,
                   SortEntries(f, dirPath, Readdir(f, dirPath)), 1)

\* fs.readdir(dirPath) rejects: nothing is at dirPath, or it is no directory
\* or cannot be read
ReaddirFails(f, dirPath) == ~IsDir(f, dirPath) \/ dirPath \in f.unreadable

\* the lines buildTreeRecursive pushes for dirPath: none when readdir fails
buildTreeRecursive(f, dirPath, prefix, isRoot) ==
    IF ReaddirFails(f, dirPath) THEN <<>>
    ELSE EntryLoop(f, dirPath, prefix, isRoot,
                   SortEntries(f, dirPath, Readdir(f, dirPath)), 1)

\* the array tree of generateDirectoryTreeFromFilesystem
TreeLines(f, folderPath) ==
    << Basename(folderPath) \o <<"/">> >>
        \o buildTreeRecursive(f, folderPath, <<>>, TRUE)

\* tree.join("\n")
RECURSIVE JoinLines(_, _)
JoinLines(lines, i) ==
    IF i > Len(lines) THEN <<>>
    ELSE (IF i > 1 THEN <<"\n">> ELSE <<>>) \o lines[i] \o JoinLines(lines, i + 1)

generateDirectoryTreeFromFilesystem(f, folderPath) ==
    JoinLines(TreeLines(f, folderPath), 1)

---------------------------------------------------------------------------
(* Specification SpecSanitize: sanitizeFolderName applied to task strings. *)

MaxTaskEdge == 2

TaskAlphabet == {"a", " ", "\t", "_", "!"}

\* lengths of the run of letters in the middle of a task string, chosen
\* around the truncation length
PadLens == {0, MaxFolderLen - 2, MaxFolderLen - 1}

TaskInputs ==
    {pre \o Repeat(<<"x">>, n) \o suf :
        pre \in StringsUpTo(TaskAlphabet, MaxTaskEdge),
        n \in PadLens,
        suf \in StringsUpTo(TaskAlphabet, MaxTaskEdge)}

Sanitize ==
    /\ calls = 0
    /\ \E task \in TaskInputs :
          last' = [op |-> "sanitizeFolderName", task |-> task,
                   out |-> sanitizeFolderName(task)]
    /\ calls' = calls + 1
    /\ UNCHANGED <<fs, now>>

NextSanitize == Sanitize

SpecSanitize == InitCommon /\ [][NextSanitize]_vars

\* C9: sanitizing an already sanitized name yields the same name, also when
\* the name was truncated to 50 characters or is the fallback name.
C9_SanitizeIdempotent ==
    last.op = "sanitizeFolderName" =>
        sanitizeFolderName(last.out) = last.out

\* a task that was cut at 50 characters, right after an underscore that
\* stands for a whitespace run
C9_Witness_Truncated ==
    /\ last.op = "sanitizeFolderName"
    /\ Len(last.out) = MaxFolderLen
    /\ last.out[MaxFolderLen] = "_"
    /\ Len(SelectSeq(last.task, IsFolderChar)) > MaxFolderLen
    /\ sanitizeFolderName(last.out) = last.out

---------------------------------------------------------------------------
(* Specification SpecParse: parseCodeFiles applied to markdown texts.      *)
(* A text is either rendered from a list of fenced blocks, each described  *)
(* by its header and body together with what the block declares, or is a   *)
(* text without any fence.                                                 *)

MaxBlocks == 3
MaxTextLen == 3

\* block bodies: the text, the paths its File: comments declare (as they
\* are to be emitted, in document order) and the extension its content has
BodyEmpty == [text |-> <<>>, decl |-> <<>>, ext |-> ExtJs]
BodyBlank == [text |-> <<" ","\n">>, decl |-> <<>>, ext |-> ExtJs]
BodyX     == [text |-> <<"x","\n">>, decl |-> <<>>, ext |-> ExtJs]
BodyHtml  == [text |-> <<"<","h","t","m","l",">","\n">>, decl |-> <<>>,
              ext |-> ExtHtml]
BodySlash == [text |-> <<"/","/"," ","F","i","l","e",":"," ","b",".","j","s","\n",
                         "x","\n">>,
              decl |-> << <<"b",".","j","s">> >>, ext |-> ExtJs]
BodyHash  == [text |-> <<"#"," ","F","i","l","e",":"," ",".","/","c",".","p","y","\n">>,
              decl |-> << <<"c",".","p","y">> >>, ext |-> ExtJs]
BodyHtmlC == [text |-> <<"<","!","-","-"," ","F","i","l","e",":"," ",
                         "d",".","h","t","m","l"," ","-","-",">","\n">>,
              decl |-> << <<"d",".","h","t","m","l">> >>, ext |-> ExtHtml]
BodyStar  == [text |-> <<"x","\n","/","*"," ","F","i","l","e",":"," ",
                         "e",".","c","s","s"," ","*","/","\n">>,
              decl |-> << <<"e",".","c","s","s">> >>, ext |-> ExtJs]
BodyTwo   == [text |-> <<"#"," ","F","i","l","e",":"," ","c",".","p","y","\n",
                         "/","/"," ","F","i","l","e",":"," ","b",".","j","s","\n">>,
              decl |-> << <<"c",".","p","y">>, <<"b",".","j","s">> >>, ext |-> ExtJs]

Bodies == {BodyEmpty, BodyBlank, BodyX, BodyHtml, BodySlash, BodyHash,
           BodyHtmlC, BodyStar, BodyTwo}

\* block headers: the language tag, the text after the colon (if any), the
\* path that text stands for (trimmed, without a leading "./" or "/") and
\* whether the tag is a key of languageMap
HeaderNone    == [lang |-> <<>>, colon |-> FALSE, path |-> <<>>, want |-> <<>>,
                  known |-> FALSE]
HeaderJs      == [lang |-> <<"j","s">>, colon |-> FALSE, path |-> <<>>,
                  want |-> <<>>, known |-> TRUE]
HeaderUnknown == [lang |-> <<"z","z">>, colon |-> FALSE, path |-> <<>>,
                  want |-> <<>>, known |-> FALSE]
HeaderJsPath  == [lang |-> <<"j","s">>, colon |-> TRUE,
                  path |-> <<"s","r","c","/","a","p","p",".","j","s">>,
                  want |-> <<"s","r","c","/","a","p","p",".","j","s">>,
                  known |-> TRUE]
HeaderPath    == [lang |-> <<>>, colon |-> TRUE,
                  path |-> <<" ",".","/","a",".","j","s"," ">>,
                  want |-> <<"a",".","j","s">>, known |-> FALSE]
HeaderBlankPath == [lang |-> <<"j","s">>, colon |-> TRUE, path |-> <<" ">>,
                    want |-> <<>>, known |-> TRUE]

Headers == {HeaderNone, HeaderJs, HeaderUnknown, HeaderJsPath, HeaderPath,
            HeaderBlankPath}

Block(header, body) == [header |-> header, body |-> body]

\* the text of one fenced block, followed by a newline
RenderBlock(b) ==
    Fence \o b.header.lang
          \o (IF b.header.colon THEN <<":">> \o b.header.path ELSE <<>>)
          \o <<"\n">> \o b.body.text \o Fence \o <<"\n">>

RenderBlocks(bs) == Concat([i \in 1..Len(bs) |-> RenderBlock(bs[i])])

\* all sequences over the set S of length 1..n
SeqsUpTo(S, n) == UNION {[1..k -> S] : k \in 1..n}

\* blocks without an explicit path, with no tag or an unknown one, some of
\* them empty or blank
NamingBlocks ==
    {Block(HeaderNone, b) : b \in {BodyEmpty, BodyBlank, BodyX, BodyHtml, BodySlash}}
    \cup {Block(HeaderUnknown, BodyX), Block(HeaderUnknown, BodyEmpty)}

\* any header with any body, alone or after an accepted or an empty block
PriorityInputs ==
    {pre \o <<Block(h, b)>> :
        pre \in {<<>>, <<Block(HeaderNone, BodyX)>>, <<Block(HeaderNone, BodyEmpty)>>},
        h \in Headers, b \in Bodies}

BlockInputs == SeqsUpTo(NamingBlocks, MaxBlocks) \cup PriorityInputs

TextAlphabet == {"#", "*", "[", "a", " ", "\n"}

HelloWorld == <<"h","e","l","l","o"," ","w","o","r","l","d">>

\* paths that begin with slashes and dots
OddPaths ==
    {<<"/">>, <<".", "/">>, <<"/", "/", "x">>, <<".", "/", "/", "x">>,
     <<"/", "x">>, <<".", "/", "x">>, <<".", "/", ".", "/", "x">>, <<"x">>}

\* a block with the path p in its header, and a block with the path p in a
\* File: comment of its body
PathTexts ==
    {Fence \o <<":">> \o p \o <<"\n", "1", "\n">> \o Fence \o <<"\n">> :
        p \in OddPaths}
    \cup {Fence \o <<"\n">> \o SlashSlash \o <<" ">> \o FileKw \o <<" ">> \o p
              \o <<"\n", "1", "\n">> \o Fence : p \in OddPaths}

TextInputs ==
    StringsUpTo(TextAlphabet, MaxTextLen)
    \cup {HelloWorld, <<"*"," ">> \o HelloWorld, <<"*"," ">> \o KwFunction,
          <<"#"," ">> \o HelloWorld, <<"[","x","]","\n">> \o HelloWorld}
    \cup PathTexts

ParseBlocks ==
    /\ calls = 0
    /\ \E bs \in BlockInputs :
          \E md \in {RenderBlocks(bs)} :
             last' = [op |-> "parseCodeFiles", blocks |-> bs, md |-> md,
                      files |-> parseCodeFiles(md)]
    /\ calls' = calls + 1
    /\ UNCHANGED <<fs, now>>

ParseText ==
    /\ calls = 0
    /\ \E text \in TextInputs :
          last' = [op |-> "parseCodeFiles", blocks |-> <<>>, md |-> text,
                   files |-> parseCodeFiles(text)]
    /\ calls' = calls + 1
    /\ UNCHANGED <<fs, now>>

NextParse == ParseBlocks \/ ParseText

SpecParse == InitCommon /\ [][NextParse]_vars

\* the blocks of the input whose body is not blank, in document order
Accepted(bs) == SelectSeq(bs, LAMBDA b : b.body.text \notin {<<>>, <<" ","\n">>})

HasPath(b) == b.header.want # <<>>

ParsedBlocks == last.op = "parseCodeFiles" /\ last.blocks # <<>>

\* some block of the input has a body that is not blank
ParsedAccepted == ParsedBlocks /\ Accepted(last.blocks) # <<>>

\* the name parseCodeFiles is to give the k-th accepted block b when it is
\* named by index: main<ext> or file<k><ext>
WantedIndexName(b, k) ==
    LET ext == IF b.header.lang = <<>> THEN b.body.ext
               ELSE IF b.header.known THEN getExtensionFromLanguage(b.header.lang)
               ELSE ExtTxt
    IN  (IF k = 1 THEN MainName ELSE FileName \o ToDigits(k)) \o ext

\* the input is a list of blocks with no explicit path and no recognized
\* language tag
C5_Case ==
    /\ ParsedBlocks
    /\ \A i \in 1..Len(last.blocks) :
          ~last.blocks[i].header.colon /\ ~last.blocks[i].header.known

\* its N non-blank blocks come out as N files, in document order, named
\* main<ext>, file2<ext>, ..., file{N}<ext>, with the bodies as contents
C5_GapFree ==
    LET acc == Accepted(last.blocks)
    IN  /\ Len(last.files) = Len(acc)
        /\ \A k \in 1..Len(acc) :
              /\ last.files[k].filePath = WantedIndexName(acc[k], k)
              /\ last.files[k].content = acc[k].body.text

\* C5 as stated: N non-blank blocks with no explicit path and no recognized
\* language tag, interleaved with empty blocks, give exactly N files named
\* main<ext>, file2<ext>, ..., file{N}<ext> in document order.
C5_Original == C5_Case => C5_GapFree

\* C5 as amended: the same, for N >= 1 and blocks whose bodies hold no File:
\* comment.
C5_GapFreeNaming ==
    (/\ C5_Case
     /\ Accepted(last.blocks) # <<>>
     /\ \A i \in 1..Len(last.blocks) : last.blocks[i].body.decl = <<>>)
        => C5_GapFree

\* two accepted blocks with a discarded one between them: main and file2
C5_Witness ==
    /\ C5_Case
    /\ Len(last.blocks) = 3
    /\ last.blocks[2].body.text = <<>>
    /\ \A i \in 1..3 : last.blocks[i].body.decl = <<>>
    /\ Len(last.files) = 2
    /\ last.files[2].filePath = FileName \o <<"2">> \o ExtHtml

\* C6: a non-blank block whose header carries an explicit path is emitted
\* under that path, trimmed and without a leading "./" or "/", whatever its
\* language tag, the File: comments of its body and its position.
C6_ExplicitPathWins ==
    ParsedAccepted =>
        LET acc == Accepted(last.blocks)
        IN  /\ Len(last.files) = Len(acc)
            /\ \A k \in 1..Len(acc) :
                  HasPath(acc[k]) => last.files[k].filePath = acc[k].header.want

\* a block headed js:src/app.js whose body declares another path in a File:
\* comment, after an earlier block: the file is src/app.js
C6_Witness ==
    /\ ParsedBlocks
    /\ Len(last.blocks) = 2
    /\ last.blocks[2].header = HeaderJsPath
    /\ last.blocks[2].body = BodySlash
    /\ Len(last.files) = 2
    /\ last.files[2].filePath = <<"s","r","c","/","a","p","p",".","j","s">>

\* C7: a non-blank block without an explicit path whose body holds a File:
\* comment is emitted under a path that comment declares, not under a
\* main/file<N> name; with an explicit path the comment is ignored.
C7_CommentBeatsInference ==
    ParsedAccepted =>
        LET acc == Accepted(last.blocks)
        IN  /\ Len(last.files) = Len(acc)
            /\ \A k \in 1..Len(acc) :
                  acc[k].body.decl # <<>> =>
                      IF HasPath(acc[k])
                      THEN last.files[k].filePath \notin
                              {acc[k].body.decl[n] : n \in 1..Len(acc[k].body.decl)}
                      ELSE /\ last.files[k].filePath \in
                                {acc[k].body.decl[n] : n \in 1..Len(acc[k].body.decl)}
                           /\ last.files[k].filePath # WantedIndexName(acc[k], k)

\* a block tagged js whose body starts with "// File: b.js", after an earlier
\* block: the file is b.js and not file2.js
C7_Witness ==
    /\ ParsedBlocks
    /\ Len(last.blocks) = 2
    /\ last.blocks[2].header = HeaderJs
    /\ last.blocks[2].body = BodySlash
    /\ Len(last.files) = 2
    /\ last.files[2].filePath = <<"b",".","j","s">>

---------------------------------------------------------------------------
(* Specification Spec: calls of writeFiles, one after the other, on the    *)
(* filesystem the earlier calls left, while the clock advances.            *)

MaxCalls == 2
MaxFault == 2
MaxClock == 2

\* two task strings with the same folder name and one with another
Tasks == {<<"a">>, <<"a", "!">>, <<"b">>}

\* a fenced block with the explicit path filePath
PathBlock(filePath, text) ==
    Fence \o <<":">> \o filePath \o <<"\n">> \o text \o <<"\n">> \o Fence
          \o <<"\n">>

MdEmpty == <<>>
StarHello == <<"*", " ">> \o HelloWorld
\* one block with a language tag: main.js
MdOne == Fence \o <<"j", "s", "\n", "1", "\n">> \o Fence
\* the file x and then a file below x
MdTwo == PathBlock(<<"x">>, <<"2">>) \o PathBlock(<<"x", "/", "y">>, <<"3">>)
\* a file in a subdirectory
MdDir == PathBlock(<<"d", "/", "f">>, <<"4">>)

\* two blocks with the same path
MdSame == PathBlock(<<"x">>, <<"5">>) \o PathBlock(<<"x">>, <<"6">>)

Markdowns == {MdEmpty, HelloWorld, StarHello, MdOne, MdTwo, MdDir, MdSame}

WriteFiles ==
    /\ calls < MaxCalls
    /\ \E task \in Tasks, codeMarkdown \in Markdowns, fault \in 0..MaxFault :
          \E r \in {writeFiles(fs, task, codeMarkdown, fault, now)} :
             /\ fs' = r.w.fs
             /\ last' = [op |-> "writeFiles", task |-> task,
                         md |-> codeMarkdown, fault |-> fault,
                         timestamp |-> now, before |-> fs, result |-> r]
    /\ calls' = calls + 1
    /\ UNCHANGED now

\* Date.now() grows between calls
Tick ==
    /\ now < MaxClock
    /\ now' = now + 1
    /\ UNCHANGED <<fs, calls, last>>

Next == WriteFiles \/ Tick

Spec == InitCommon /\ [][Next]_vars

\* p is the directory d or lies below it
Under(p, d) == Len(p) >= Len(d) /\ Prefix(p, Len(d)) = d

\* the directories and files of the filesystem f at and below d
Contents(f, d) ==
    [dirs  |-> {p \in f.dirs : Under(p, d)},
     files |-> [p \in {q \in DOMAIN f.files : Under(q, d)} |-> f.files[p]]]

DerivedFolder == FolderPath(sanitizeFolderName(last.task))

SecondFolder ==
    FolderPath(UniqueFolderName(sanitizeFolderName(last.task), last.timestamp))

Log == last.result.w.log

WroteAt(i) == Log[i].call = "writeFile" /\ Log[i].code = ""

WriteFailedAt(i) == Log[i].call = "writeFile" /\ Log[i].code # ""

\* C1: when the base directory already holds a directory of the derived
\* name, every file of the call is written into the folder named
\* derivedName_timestamp and the contents of the original folder are the
\* same after the call as before it, whatever the outcome.
C1_Original ==
    (last.op = "writeFiles" /\ IsDir(last.before, DerivedFolder)) =>
        /\ Contents(fs, DerivedFolder) = Contents(last.before, DerivedFolder)
        /\ \A i \in 1..Len(Log) : WroteAt(i) => Under(Log[i].path, SecondFolder)

\* C2: a failing file write makes writeFiles fail with the error that names
\* the artifact's path, no later artifact is written, and the files written
\* before it are on disk.
C2_Original ==
    last.op = "writeFiles" =>
        \A i \in 1..Len(Log) :
            WriteFailedAt(i) =>
                /\ last.result.err = ErrWrite(Log[i].rel)
                /\ \A j \in (i + 1)..Len(Log) : ~WroteAt(j)
                /\ \A j \in 1..(i - 1) : WroteAt(j) => IsFile(fs, Log[j].path)

\* C3: when the extraction yields no artifact, writeFiles fails with the
\* "No files found" error, has issued no mkdir and no writeFile, and the
\* filesystem is the one before the call.
C3_NoFilesNoWrites ==
    (last.op = "writeFiles" /\ parseCodeFiles(last.md) = <<>>) =>
        /\ last.result.err = ErrNoFiles
        /\ Log = <<>>
        /\ fs = last.before

\* a call without artifacts for a task whose folder does not exist yet, on
\* a filesystem an earlier call has written to
C3_Witness ==
    /\ last.op = "writeFiles"
    /\ parseCodeFiles(last.md) = <<>>
    /\ last.md # <<>>
    /\ last.result.err = ErrNoFiles
    /\ ~IsDir(fs, DerivedFolder)
    /\ DOMAIN fs.files # {}

\* the text has no fenced code block
NoFence(codeMarkdown) == ~ExecBlock(codeMarkdown, 1).ok

\* the text contains none of the words function, class and import
NoMarkers(codeMarkdown) ==
    /\ ~Includes(codeMarkdown, KwFunction)
    /\ ~Includes(codeMarkdown, KwClass)
    /\ ~Includes(codeMarkdown, KwImport)

\* every line of the text begins with one of #, *, U+0060, [ and ]
EveryLineMarked(text) ==
    \A i \in 1..Len(text) :
        (i = 1 \/ text[i - 1] = "\n" \/ text[i - 1] = "\r") =>
            text[i] \in {"#", "*", Backtick, "[", "]"}

NothingCreated ==
    /\ last.result.err = ErrNoFiles
    /\ fs = last.before

---------------------------------------------------------------------------
(* Specification SpecTree: writeFiles for a list of artifacts with         *)
(* explicit paths, into a base directory without a project folder, and     *)
(* then the rendering of the tree of the folder it returned.               *)

MaxFiles == 3

TreeTask == <<"p">>

\* top-level files, files in directories one and two levels down, names
\* that differ in case only, a path that leaves the project folder, and a
\* path that begins with two slashes
TreePaths ==
    {<<"a">>, <<"B">>, <<"b", "/", "a">>, <<"c", "/", "a">>,
     <<"c", "/", "b", "/", "a">>, <<"c", "/", "d">>, <<".", ".", "/", "a">>,
     <<"/", "/", "d">>}

TreeMarkdown(paths) ==
    Concat([i \in 1..Len(paths) |-> PathBlock(paths[i], <<"1">>)])

WriteProject ==
    /\ calls = 0
    /\ \E paths \in SeqsUpTo(TreePaths, MaxFiles) :
          \E r \in {writeFiles(fs, TreeTask, TreeMarkdown(paths), 0, now)} :
             /\ fs' = r.w.fs
             /\ last' = [op |-> "writeFiles", task |-> TreeTask,
                         md |-> TreeMarkdown(paths), fault |-> 0,
                         timestamp |-> now, before |-> fs, result |-> r]
    /\ calls' = calls + 1
    /\ UNCHANGED now

\* the call of generateDirectoryTreeFromFilesystem that follows a
\* successful writeFiles
RenderTree ==
    /\ last.op = "writeFiles"
    /\ last.result.err = NoError
    /\ last' = [op |-> "tree",
                folderPath |-> last.result.folderPath,
                files |-> last.result.files,
                lines |-> TreeLines(fs, last.result.folderPath),
                tree |-> generateDirectoryTreeFromFilesystem(
                             fs, last.result.folderPath)]
    /\ UNCHANGED <<fs, now, calls>>

NextTree == WriteProject \/ RenderTree

SpecTree == InitCommon /\ [][NextTree]_vars

\* the number of prefix units a line begins with
Depth(line) ==
    Cardinality({k \in 1..Len(line) :
                    \A j \in 1..k : line[j] = Bar \/ line[j] = Gap})

IsDirLine(line) == line[Len(line)] = "/"

\* the name of the entry of a line: what follows the connector and the
\* space, without the slash of a directory
NameOf(line) ==
    SubSeq(line, Depth(line) + 3,
           IF IsDirLine(line) THEN Len(line) - 1 ELSE Len(line))

\* the line of the directory that the i-th line is an entry of: the first
\* line for an entry of the root, else the nearest line above it that is
\* one level higher; 0 when there is none
ParentLine(lines, i) ==
    IF Depth(lines[i]) = 0 THEN 1
    ELSE Max({0} \cup {j \in 2..(i - 1) : Depth(lines[j]) = Depth(lines[i]) - 1})

\* the path the i-th line stands for
RECURSIVE PathOfLine(_, _, _)
PathOfLine(lines, folderPath, i) ==
    IF i <= 1 THEN folderPath
    ELSE Append(PathOfLine(lines, folderPath, ParentLine(lines, i)),
                NameOf(lines[i]))

\* directories before files, and names in the order of localeCompare
\* within the directories and within the files
InOrder(first, second) ==
    /\ IsDirLine(first) \/ ~IsDirLine(second)
    /\ IsDirLine(first) = IsDirLine(second) =>
          localeCompare(NameOf(first), NameOf(second)) < 0

\* the first segment of a relative path
FirstSegment(filePath) == Split(filePath)[1]

TopLevel(lines) == {i \in 2..Len(lines) : Depth(lines[i]) = 0}

\* C8: after writing N artifacts into a new project folder, the names of
\* the top-level entries of the rendered tree are the first segments of
\* the N relative paths, directories before files and each group in name
\* order.
C8_Original ==
    last.op = "tree" =>
        /\ {NameOf(last.lines[i]) : i \in TopLevel(last.lines)}
              = {FirstSegment(last.files[k]) : k \in 1..Len(last.files)}
        /\ \A i, j \in TopLevel(last.lines) :
              i < j => InOrder(last.lines[i], last.lines[j])

IsLastSibling(p) ==
    \A q \in fs.dirs \cup DOMAIN fs.files :
        (q # <<>> /\ q # p /\ Dirname(q) = Dirname(p)) =>
            \/ IsDir(fs, q) /\ ~IsDir(fs, p)
            \/ /\ IsDir(fs, q) = IsDir(fs, p)
               /\ localeCompare(Basename(q), Basename(p)) < 0

\* the line of the entry at path p below the folder root: one prefix unit
\* for each ancestor below the root, the connector, a space, the name and
\* the slash of a directory
ExpectedLine(root, p) ==
    [k \in 1..(Len(p) - Len(root) - 1) |->
        IF IsLastSibling(Prefix(p, Len(root) + k)) THEN Gap ELSE Bar]
    \o <<IF IsLastSibling(p) THEN Elbow ELSE Tee, " ">>
    \o Basename(p)
    \o (IF IsDir(fs, p) THEN <<"/">> ELSE <<>>)

\* C11: the first line of the tree is the name of the root folder and a
\* slash; every other line is the prefix, the connector, a space and the
\* name of its entry (and a slash for a directory), where the connector is
\* the elbow exactly for the last entry of a directory and the prefix has,
\* for each ancestor of the entry below the root, three spaces when that
\* ancestor is a last entry and the bar with two spaces when it is not.
C11_ConnectorsAndPrefixes ==
    last.op = "tree" =>
        /\ last.lines[1] = Basename(last.folderPath) \o <<"/">>
        /\ \A i \in 2..Len(last.lines) :
              last.lines[i] =
                  ExpectedLine(last.folderPath,
                               PathOfLine(last.lines, last.folderPath, i))
        /\ last.tree = JoinLines(last.lines, 1)

\* a root with the subdirectory c (holding the file a) and the file B:
\* the lines p/, tee c/, bar elbow a, elbow B
C11_Witness ==
    /\ last.op = "tree"
    /\ last.lines = << <<"p", "/">>,
                       <<Tee, " ", "c", "/">>,
                       <<Bar, Elbow, " ", "a">>,
                       <<Elbow, " ", "B">> >>

---------------------------------------------------------------------------
(* Specification SpecUnreadable: as SpecTree, but directories of the       *)
(* written project lose their read permission before the tree is rendered. *)

\* another process removes the read permission of a directory of the
\* project
MakeUnreadable ==
    /\ last.op = "writeFiles"
    /\ last.result.err = NoError
    /\ \E d \in fs.dirs \ fs.unreadable :
          /\ Under(d, last.result.folderPath)
          /\ fs' = [fs EXCEPT !.unreadable = @ \cup {d}]
    /\ UNCHANGED <<now, calls, last>>

NextUnreadable == WriteProject \/ MakeUnreadable \/ RenderTree

SpecUnreadable == InitCommon /\ [][NextUnreadable]_vars

\* the entries the rendering can get to: those below the folder root with
\* every directory from the root down to their own directory readable
Listed(root) ==
    {p \in fs.dirs \cup DOMAIN fs.files :
        /\ Under(p, root)
        /\ p # root
        /\ \A k \in Len(root)..(Len(p) - 1) : Prefix(p, k) \notin fs.unreadable}

\* C12: the rendering returns a tree whatever directories cannot be read:
\* the line of the root, and one line, with the connector and prefix of
\* its place among all its siblings, for each entry whose directory and the
\* directories above it up to the root can be read; so a directory that
\* cannot be read has its own line and no line for its contents, and its
\* siblings and their subtrees are rendered.
C12_UnreadableSkipped ==
    last.op = "tree" =>
        /\ last.lines[1] = Basename(last.folderPath) \o <<"/">>
        /\ {PathOfLine(last.lines, last.folderPath, i) : i \in 2..Len(last.lines)}
              = Listed(last.folderPath)
        /\ Len(last.lines) = 1 + Cardinality(Listed(last.folderPath))
        /\ \A i \in 2..Len(last.lines) :
              last.lines[i] =
                  ExpectedLine(last.folderPath,
                               PathOfLine(last.lines, last.folderPath, i))
        /\ last.tree = JoinLines(last.lines, 1)

\* the directory c holds a file and cannot be read, its sibling B comes
\* after it: the lines p/, tee c/, elbow B
C12_Witness ==
    /\ last.op = "tree"
    /\ fs.unreadable = {Append(last.folderPath, <<"c">>)}
    /\ IsFile(fs, Append(Append(last.folderPath, <<"c">>), <<"a">>))
    /\ last.lines = << <<"p", "/">>, <<Tee, " ", "c", "/">>, <<Elbow, " ", "B">> >>

\* the root cannot be read: the tree is its line alone
C12_WitnessRoot ==
    /\ last.op = "tree"
    /\ last.folderPath \in fs.unreadable
    /\ DOMAIN fs.files # {}
    /\ last.lines = << <<"p", "/">> >>

(***************************************************************************)
(* Run instructions.  An instruction is a sequence of tokens: the fixed    *)
(* text of the template literal, then the characters of the interpolated   *)
(* path or file name.                                                      *)
(***************************************************************************)

\* the entry points generateRunInstructions looks for
EntryPoints ==
    [packageJson |-> <<"p", "a", "c", "k", "a", "g", "e", ".", "j", "s", "o", "n">>,
     requirementsTxt |-> <<"r", "e", "q", "u", "i", "r", "e", "m", "e", "n", "t", "s", ".", "t", "x", "t">>,
     indexHtml |-> <<"i", "n", "d", "e", "x", ".", "h", "t", "m", "l">>,
     mainPy |-> <<"m", "a", "i", "n", ".", "p", "y">>,
     mainJs |-> <<"m", "a", "i", "n", ".", "j", "s">>,
     indexJs |-> <<"i", "n", "d", "e", "x", ".", "j", "s">>]

\* path.resolve(folderPath) as a string
RECURSIVE PathChars(_)
PathChars(p) ==
    IF p = <<>> THEN <<>> ELSE <<"/">> \o Head(p) \o PathChars(Tail(p))

\* the if chain of generateRunInstructions: names is the set of the file
\* names, htmlFiles the file names that end with .html, in readdir order
RunRules(absPath, names, htmlFiles) ==
    IF EntryPoints.packageJson \in names
    THEN << <<"1. cd ">> \o absPath, <<"2. npm install">>, <<"3. npm start">> >>
    ELSE IF EntryPoints.requirementsTxt \in names
    THEN << <<"1. cd ">> \o absPath, <<"2. pip install -r requirements.txt">>,
            <<"3. python main.py">> >>
    ELSE IF EntryPoints.indexHtml \in names
    THEN << <<"1. cd ">> \o absPath, <<"2. open index.html">> >>
    ELSE IF EntryPoints.mainPy \in names
    THEN << <<"1. cd ">> \o absPath, <<"2. python main.py">> >>
    ELSE IF EntryPoints.mainJs \in names \/ EntryPoints.indexJs \in names
    THEN << <<"1. cd ">> \o absPath,
            <<"2. node ">> \o (IF EntryPoints.mainJs \in names
                               THEN EntryPoints.mainJs
                               ELSE EntryPoints.indexJs) >>
    ELSE IF htmlFiles # <<>>
    THEN << <<"1. cd ">> \o absPath, <<"2. open ">> \o Head(htmlFiles) >>
    ELSE << <<"1. cd ">> \o absPath,
            <<"2. Check the project files and run the appropriate command">> >>

\* a generateRunInstructions that looks at every entry, directories included
generateRunInstructions_anyEntry(f, folderPath, entries) ==
    IF ReaddirFails(f, folderPath)
    THEN << <<"1. cd ">> \o PathChars(folderPath),
            <<"2. Review the project files to determine how to run">> >>
    ELSE RunRules(PathChars(folderPath),
                  {entries[k] : k \in DOMAIN entries},
                  SelectSeq(entries, LAMBDA n :
                      /\ Len(n) >= Len(ExtHtml)
                      /\ From(n, Len(n) - Len(ExtHtml) + 1) = ExtHtml))

\* entries is the array fs.readdir resolves to: the names of the entries of
\* folderPath in the order the file system lists them
generateRunInstructions(f, folderPath, entries) ==
    IF ReaddirFails(f, folderPath)
    THEN << <<"1. cd ">> \o PathChars(folderPath),
            <<"2. Review the project files to determine how to run">> >>
    ELSE RunRules(PathChars(folderPath),
                  {n \in {entries[k] : k \in DOMAIN entries} :
                      IsFile(f, Append(folderPath, n))},
                  SelectSeq(entries, LAMBDA n :
                      /\ IsFile(f, Append(folderPath, n))
                      /\ Len(n) >= Len(ExtHtml)
                      /\ From(n, Len(n) - Len(ExtHtml) + 1) = ExtHtml))

(***************************************************************************)
(* Specification SpecRun: one project is written, some of its directories  *)
(* may become unreadable, and the run instructions of the returned folder  *)
(* are generated, with the entries in any order readdir may list them.     *)
(***************************************************************************)

MaxRunFiles == 2

\* the entry points, two other .html files, a file no rule names, an entry
\* point in a subdirectory and a directory named like an entry point
RunPaths ==
    {EntryPoints.packageJson, EntryPoints.requirementsTxt,
     EntryPoints.indexHtml, EntryPoints.mainPy, EntryPoints.mainJs,
     EntryPoints.indexJs,
     <<"a">> \o ExtHtml, <<"b">> \o ExtHtml, <<"x">> \o ExtTxt,
     <<"d", "/">> \o EntryPoints.packageJson,
     EntryPoints.mainPy \o <<"/", "x">>}

WriteRunProject ==
    /\ calls = 0
    /\ \E paths \in SeqsUpTo(RunPaths, MaxRunFiles) :
          \E r \in {writeFiles(fs, TreeTask, TreeMarkdown(paths), 0, now)} :
             /\ fs' = r.w.fs
             /\ last' = [op |-> "writeFiles", task |-> TreeTask,
                         md |-> TreeMarkdown(paths), fault |-> 0,
                         timestamp |-> now, before |-> fs, result |-> r]
    /\ calls' = calls + 1
    /\ UNCHANGED now

\* the call of generateRunInstructions that follows a successful writeFiles
RunInstructions ==
    /\ last.op = "writeFiles"
    /\ last.result.err = NoError
    /\ \E entries \in {e \in SeqsUpTo(Readdir(fs, last.result.folderPath),
                              Cardinality(Readdir(fs, last.result.folderPath))) :
                          {e[k] : k \in DOMAIN e}
                              = Readdir(fs, last.result.folderPath)
                          /\ Len(e) = Cardinality(Readdir(fs, last.result.folderPath))} :
          last' = [op |-> "run",
                   folderPath |-> last.result.folderPath,
                   entries |-> entries,
                   instructions |-> generateRunInstructions(
                       fs, last.result.folderPath, entries)]
    /\ UNCHANGED <<fs, now, calls>>

NextRun == WriteRunProject \/ MakeUnreadable \/ RunInstructions

SpecRun == InitCommon /\ [][NextRun]_vars

\* the regular files directly in the folder the instructions are about
RootFiles ==
    {n \in Readdir(fs, last.folderPath) : IsFile(fs, Append(last.folderPath, n))}

\* the first regular file of the listing whose name ends with .html
FirstHtml ==
    last.entries[CHOOSE k \in DOMAIN last.entries :
        /\ last.entries[k] \in RootFiles
        /\ From(last.entries[k], Len(last.entries[k]) - 4) = ExtHtml
        /\ \A j \in 1..(k - 1) :
              ~(/\ last.entries[j] \in RootFiles
                /\ From(last.entries[j], Len(last.entries[j]) - 4) = ExtHtml)]

CdLine == <<"1. cd ", "/", "w", "/", "p">>

\* C13: when the project root can be listed, the instructions are those of
\* the first rule, in the order package.json, requirements.txt, index.html,
\* main.py, main.js or index.js, any .html file, that a regular file
\* directly in the root matches, and the generic line when none matches;
\* directories and files in subdirectories do not count.
C13_FirstMatchingRule ==
    (last.op = "run" /\ ~ReaddirFails(fs, last.folderPath)) =>
       /\ last.folderPath = <<<<"w">>, <<"p">>>>
       /\ <<"p", "a", "c", "k", "a", "g", "e", ".", "j", "s", "o", "n">> \in RootFiles =>
             last.instructions
                = <<CdLine, <<"2. npm install">>, <<"3. npm start">>>>
       /\ (<<"p", "a", "c", "k", "a", "g", "e", ".", "j", "s", "o", "n">> \notin RootFiles /\ <<"r", "e", "q", "u", "i", "r", "e", "m", "e", "n", "t", "s", ".", "t", "x", "t">> \in RootFiles) =>
             last.instructions
                = <<CdLine, <<"2. pip install -r requirements.txt">>,
                    <<"3. python main.py">>>>
       /\ ({<<"p", "a", "c", "k", "a", "g", "e", ".", "j", "s", "o", "n">>, <<"r", "e", "q", "u", "i", "r", "e", "m", "e", "n", "t", "s", ".", "t", "x", "t">>} \cap RootFiles = {} /\ <<"i", "n", "d", "e", "x", ".", "h", "t", "m", "l">> \in RootFiles) =>
             last.instructions = <<CdLine, <<"2. open index.html">>>>
       /\ ({<<"p", "a", "c", "k", "a", "g", "e", ".", "j", "s", "o", "n">>, <<"r", "e", "q", "u", "i", "r", "e", "m", "e", "n", "t", "s", ".", "t", "x", "t">>, <<"i", "n", "d", "e", "x", ".", "h", "t", "m", "l">>} \cap RootFiles = {} /\ <<"m", "a", "i", "n", ".", "p", "y">> \in RootFiles) =>
             last.instructions = <<CdLine, <<"2. python main.py">>>>
       /\ ({<<"p", "a", "c", "k", "a", "g", "e", ".", "j", "s", "o", "n">>, <<"r", "e", "q", "u", "i", "r", "e", "m", "e", "n", "t", "s", ".", "t", "x", "t">>, <<"i", "n", "d", "e", "x", ".", "h", "t", "m", "l">>, <<"m", "a", "i", "n", ".", "p", "y">>} \cap RootFiles = {} /\ <<"m", "a", "i", "n", ".", "j", "s">> \in RootFiles) =>
             last.instructions = <<CdLine, <<"2. node ">> \o <<"m", "a", "i", "n", ".", "j", "s">>>>
       /\ ({<<"p", "a", "c", "k", "a", "g", "e", ".", "j", "s", "o", "n">>, <<"r", "e", "q", "u", "i", "r", "e", "m", "e", "n", "t", "s", ".", "t", "x", "t">>, <<"i", "n", "d", "e", "x", ".", "h", "t", "m", "l">>, <<"m", "a", "i", "n", ".", "p", "y">>, <<"m", "a", "i", "n", ".", "j", "s">>} \cap RootFiles = {} /\ <<"i", "n", "d", "e", "x", ".", "j", "s">> \in RootFiles) =>
             last.instructions = <<CdLine, <<"2. node ">> \o <<"i", "n", "d", "e", "x", ".", "j", "s">>>>
       /\ ({<<"p", "a", "c", "k", "a", "g", "e", ".", "j", "s", "o", "n">>, <<"r", "e", "q", "u", "i", "r", "e", "m", "e", "n", "t", "s", ".", "t", "x", "t">>, <<"i", "n", "d", "e", "x", ".", "h", "t", "m", "l">>, <<"m", "a", "i", "n", ".", "p", "y">>, <<"m", "a", "i", "n", ".", "j", "s">>, <<"i", "n", "d", "e", "x", ".", "j", "s">>} \cap RootFiles = {}
              /\ \E n \in RootFiles : From(n, Len(n) - 4) = ExtHtml) =>
             last.instructions = <<CdLine, <<"2. open ">> \o FirstHtml>>
       /\ ({<<"p", "a", "c", "k", "a", "g", "e", ".", "j", "s", "o", "n">>, <<"r", "e", "q", "u", "i", "r", "e", "m", "e", "n", "t", "s", ".", "t", "x", "t">>, <<"i", "n", "d", "e", "x", ".", "h", "t", "m", "l">>, <<"m", "a", "i", "n", ".", "p", "y">>, <<"m", "a", "i", "n", ".", "j", "s">>, <<"i", "n", "d", "e", "x", ".", "j", "s">>} \cap RootFiles = {}
              /\ \A n \in RootFiles : From(n, Len(n) - 4) # ExtHtml) =>
             last.instructions
                = <<CdLine,
                    <<"2. Check the project files and run the appropriate command">>>>

\* a project whose root holds the file index.js and a directory named
\* main.py: the instructions are those of the main.js or index.js rule
C13_Witness ==
    /\ last.op = "run"
    /\ ~ReaddirFails(fs, last.folderPath)
    /\ RootFiles = {<<"i", "n", "d", "e", "x", ".", "j", "s">>}
    /\ IsDir(fs, Append(last.folderPath, <<"m", "a", "i", "n", ".", "p", "y">>))
    /\ last.instructions = <<CdLine, <<"2. node ">> \o <<"i", "n", "d", "e", "x", ".", "j", "s">>>>

\* two .html files, neither of them index.html, listed b.html first
C13_WitnessHtml ==
    /\ last.op = "run"
    /\ ~ReaddirFails(fs, last.folderPath)
    /\ last.entries = << <<"b">> \o ExtHtml, <<"a">> \o ExtHtml >>
    /\ last.instructions = <<CdLine, <<"2. open ">> \o <<"b">> \o ExtHtml>>

(***************************************************************************)
(* Specification SpecInfer: parseCodeFiles is applied to one text made of  *)
(* a few fragments, as the body of a block without a language tag, as the  *)
(* body of a block tagged py, and as a text without any block.             *)
(***************************************************************************)

MaxFragments == 2

\* what the rules of inferExtensionFromContent look for, and a plain letter
Fragments ==
    {KwHtml, <<".", "a", "{">>, KwImportSp, KwFromSp, KwRequire, KwDefSp,
     KwPrint, KwConsole, KwPackageSp, KwPhp, <<"<", "b">>, <<"x">>}

SniffContents == {Concat(fr) : fr \in SeqsUpTo(Fragments, MaxFragments)}

SniffModes == {"untagged", "tagged", "text"}

SniffMarkdown(mode, text) ==
    IF mode = "untagged" THEN Fence \o <<"\n">> \o text \o <<"\n">> \o Fence
    ELSE IF mode = "tagged"
    THEN Fence \o <<"p", "y", "\n">> \o text \o <<"\n">> \o Fence
    ELSE text

\* the argument parseCodeFiles passes to inferExtensionFromContent, if it
\* calls it: the body of the block, or the cleaned text
SniffedContent(mode, text) ==
    IF mode = "text" THEN Trim(StripHeadings(text, 1)) ELSE text \o <<"\n">>

InferExtension ==
    /\ calls = 0
    /\ \E mode \in SniffModes, text \in SniffContents :
          last' = [op |-> "infer", mode |-> mode,
                   content |-> SniffedContent(mode, text),
                   ext |-> inferExtensionFromContent(SniffedContent(mode, text)),
                   files |-> parseCodeFiles(SniffMarkdown(mode, text))]
    /\ calls' = calls + 1
    /\ UNCHANGED <<fs, now>>

NextInfer == InferExtension

SpecInfer == InitCommon /\ [][NextInfer]_vars

Has(lit) ==
    \E i \in 1..Len(last.content) :
        /\ i + Len(lit) - 1 <= Len(last.content)
        /\ SubSeq(last.content, i, i + Len(lit) - 1) = lit

AtStart(lit) ==
    Len(last.content) >= Len(lit) /\ SubSeq(last.content, 1, Len(lit)) = lit

\* [.#], one or more of [\w-], any white space, and an opening brace
HasCssSelector ==
    \E i, j, k \in 1..Len(last.content) :
        /\ last.content[i] \in {".", "#"}
        /\ i + 1 < j
        /\ j <= k
        /\ \A n \in (i + 1)..(j - 1) : last.content[n] \in WordChars \cup {"-"}
        /\ \A n \in j..(k - 1) : IsWs(last.content[n])
        /\ last.content[k] = "{"

\* white space, then "<" and a word character
BeginsWithTag ==
    \E a \in 1..(Len(last.content) - 1) :
        /\ \A n \in 1..(a - 1) : IsWs(last.content[n])
        /\ last.content[a] = "<"
        /\ last.content[a + 1] \in WordChars

IsHtmlRule == Has(<<"<", "!", "D", "O", "C", "T", "Y", "P", "E">>) \/ Has(<<"<", "h", "t", "m", "l">>)
IsCssRule == HasCssSelector
IsJsRule == (Has(<<"i", "m", "p", "o", "r", "t", " ">>) /\ Has(<<"f", "r", "o", "m", " ">>)) \/ Has(<<"r", "e", "q", "u", "i", "r", "e", "(">>)
IsPyRule == (Has(<<"d", "e", "f", " ">>) \/ Has(<<"i", "m", "p", "o", "r", "t", " ">>)) /\ Has(<<"p", "r", "i", "n", "t", "(">>) /\ ~Has(<<"c", "o", "n", "s", "o", "l", "e", ".">>)
IsJavaRule == Has(<<"p", "a", "c", "k", "a", "g", "e", " ">>) \/ Has(<<"p", "u", "b", "l", "i", "c", " ", "c", "l", "a", "s", "s">>)
NoRuleBeforePhp ==
    ~IsHtmlRule /\ ~IsCssRule /\ ~IsJsRule /\ ~IsPyRule /\ ~IsJavaRule

\* C14: the sniffed extension is that of the first matching rule in the
\* order html, css, js, py, java, php, tag, default, where the php rule is
\* "contains <?php" (anywhere in the content); the file of a block without
\* a language tag and of the whole-text fallback is named main plus that
\* extension, and a block with a language tag is named by its tag.
C14_SniffOrderPhpAnywhere ==
    last.op = "infer" =>
       /\ IsHtmlRule => last.ext = <<".", "h", "t", "m", "l">>
       /\ (~IsHtmlRule /\ IsCssRule) => last.ext = <<".", "c", "s", "s">>
       /\ (~IsHtmlRule /\ ~IsCssRule /\ IsJsRule) => last.ext = <<".", "j", "s">>
       /\ (~IsHtmlRule /\ ~IsCssRule /\ ~IsJsRule /\ IsPyRule) => last.ext = <<".", "p", "y">>
       /\ (~IsHtmlRule /\ ~IsCssRule /\ ~IsJsRule /\ ~IsPyRule /\ IsJavaRule)
             => last.ext = <<".", "j", "a", "v", "a">>
       /\ (NoRuleBeforePhp /\ Has(<<"<", "?", "p", "h", "p">>)) => last.ext = <<".", "p", "h", "p">>
       /\ (NoRuleBeforePhp /\ ~Has(<<"<", "?", "p", "h", "p">>) /\ BeginsWithTag) => last.ext = <<".", "h", "t", "m", "l">>
       /\ (NoRuleBeforePhp /\ ~Has(<<"<", "?", "p", "h", "p">>) /\ ~BeginsWithTag) => last.ext = <<".", "j", "s">>
       /\ last.mode = "untagged" =>
             /\ Len(last.files) = 1
             /\ last.files[1].filePath = <<"m", "a", "i", "n">> \o last.ext
             /\ last.files[1].content = last.content
       /\ last.mode = "tagged" =>
             /\ Len(last.files) = 1
             /\ last.files[1].filePath = <<"m", "a", "i", "n">> \o <<".", "p", "y">>
       /\ last.mode = "text" =>
             \/ last.files = <<>>
             \/ /\ Len(last.files) = 1
                /\ last.files[1].filePath = <<"m", "a", "i", "n">> \o last.ext
                /\ last.files[1].content = last.content

\* an untagged block whose body has "<?php" after its first character and
\* matches no earlier rule: its file is main.php
C14_Witness ==
    /\ last.op = "infer"
    /\ last.mode = "untagged"
    /\ NoRuleBeforePhp
    /\ Has(<<"<", "?", "p", "h", "p">>)
    /\ ~AtStart(<<"<", "?", "p", "h", "p">>)
    /\ ~BeginsWithTag
    /\ last.files[1].filePath = <<"m", "a", "i", "n">> \o <<".", "p", "h", "p">>

\* C14 as stated: content that has "<?php" somewhere other than at its
\* start, and matches no earlier rule and does not begin with a tag,
\* resolves to the default .js
C14_Original ==
    (/\ last.op = "infer"
     /\ NoRuleBeforePhp
     /\ Has(<<"<", "?", "p", "h", "p">>)
     /\ ~AtStart(<<"<", "?", "p", "h", "p">>)
     /\ ~BeginsWithTag) => last.ext = <<".", "j", "s">>

(***************************************************************************)
(* The file artifacts of parseCodeFiles (specification SpecParse).         *)
(***************************************************************************)

\* C15: every file parseCodeFiles returns has a path that is not empty and
\* does not begin with "/" or "./", and a content that is not blank.
C15_Original ==
    last.op = "parseCodeFiles" =>
       \A k \in DOMAIN last.files :
          /\ last.files[k].filePath # <<>>
          /\ ~StartsWithAt(last.files[k].filePath, 1, <<"/">>)
          /\ ~StartsWithAt(last.files[k].filePath, 1, <<".", "/">>)
          /\ Trim(last.files[k].content) # <<>>

\* the parts of C15 that hold on their own: the content is never blank
C15_ContentNotBlank ==
    last.op = "parseCodeFiles" =>
       \A k \in DOMAIN last.files : Trim(last.files[k].content) # <<>>

\* a file with an empty path, from a block whose header names the path "/"
C15_EmptyPath ==
    /\ last.op = "parseCodeFiles"
    /\ last.md = <<"BACKTICK", "BACKTICK", "BACKTICK", ":", "/", "\n", "1", "\n",
                   "BACKTICK", "BACKTICK", "BACKTICK", "\n">>
    /\ Len(last.files) = 1
    /\ last.files[1].filePath = <<>>

\* a file whose path begins with "/", from a File: comment with "//x"
C15_LeadingSlash ==
    /\ last.op = "parseCodeFiles"
    /\ \E k \in DOMAIN last.files : last.files[k].filePath = <<"/", "x">>

(***************************************************************************)
(* The result of a writeFiles call that returns.                           *)
(***************************************************************************)

Artifacts == parseCodeFiles(last.md)

Succeeded == last.op = "writeFiles" /\ last.result.err = NoError

\* where path.join puts the k-th artifact
Target(k) == Join(last.result.folderPath, Artifacts[k].filePath).path

\* C16: after a writeFiles that returns, the list of created files is the
\* sequence of the paths of the artifacts, each of them is a file under the
\* returned folder, and the file holds the content of the last artifact of
\* that path.
C16_Original ==
    Succeeded =>
       /\ last.result.files = [k \in DOMAIN Artifacts |-> Artifacts[k].filePath]
       /\ \A k \in DOMAIN Artifacts :
             /\ IsFile(fs, Target(k))
             /\ Under(Target(k), last.result.folderPath)
             /\ Target(k) # last.result.folderPath
             /\ \E j \in DOMAIN Artifacts :
                   /\ Artifacts[j].filePath = Artifacts[k].filePath
                   /\ \A i \in (j + 1)..Len(Artifacts) :
                         Artifacts[i].filePath # Artifacts[k].filePath
                   /\ fs.files[Target(k)] = Artifacts[j].content

\* what holds of C16 wherever path.join puts the files: the list is that of
\* the artifacts, each target is a file, and it holds the content of the
\* last artifact with that target
C16_ListedAndVerbatim ==
    Succeeded =>
       /\ last.result.files = [k \in DOMAIN Artifacts |-> Artifacts[k].filePath]
       /\ \A k \in DOMAIN Artifacts :
             /\ IsFile(fs, Target(k))
             /\ \E j \in DOMAIN Artifacts :
                   /\ Target(j) = Target(k)
                   /\ \A i \in (j + 1)..Len(Artifacts) : Target(i) # Target(k)
                   /\ fs.files[Target(k)] = Artifacts[j].content

\* a call that returns the path ../a and has written outside the folder
C16_Escaped ==
    /\ Succeeded
    /\ last.result.files = << <<".", ".", "/", "a">> >>
    /\ IsFile(fs, << <<"w">>, <<"a">> >>)
    /\ ~IsFile(fs, << <<"w">>, <<"p">>, <<"a">> >>)

\* two artifacts of the same path: the file holds the later content
C16_LaterWins ==
    /\ Succeeded
    /\ last.md = MdSame
    /\ last.result.files = << <<"x">>, <<"x">> >>
    /\ fs.files[Append(last.result.folderPath, <<"x">>)] = <<"6", "\n">>

(***************************************************************************)
(* Specification SpecPipeline: one run of Orchestrator.executeInitial.     *)
(* Each await of the method is one step: the agent answers or throws, and  *)
(* a throw of one of the three agents leaves executeInitial.  The record   *)
(* last holds the locals of the method, the stage reached (pc), the        *)
(* stages begun so far with their outcome (stages) and what each agent and *)
(* writeFiles were called with (the fields named to...).  It also holds    *)
(* the locals of main of index.js: the code memory currentCode (null and   *)
(* the empty string, both falsy, are the empty sequence), the versions of  *)
(* the code produced so far, and the last turn of the interaction loop.    *)
(***************************************************************************)

NoTurn ==
    [input |-> <<>>, called |-> FALSE, code |-> <<>>, request |-> <<>>,
     ok |-> FALSE]

\* answers of the task decomposition agent
StepsJsons == {<<"s", "1">>, <<"s", "2">>}

\* answers of the coding agent and of the review chain: one file, a file in
\* a subdirectory, prose without code, the same with white space around
AgentCodes == {MdOne, MdDir, StarHello, <<" ">> \o MdOne \o <<"\n">>}

Called(l, stage, ok) == Append(l.stages, [stage |-> stage, ok |-> ok])

Decompose ==
    /\ last = NoOp
    /\ \E userTask \in Tasks, ok \in BOOLEAN, answer \in StepsJsons :
          last' = [op |-> "executeInitial",
                   userTask |-> userTask,
                   pc |-> IF ok THEN "decomposed" ELSE "thrown",
                   stages |-> <<[stage |-> "decompose", ok |-> ok]>>,
                   toDecompose |-> userTask,
                   stepsJson |-> IF ok THEN answer ELSE <<>>,
                   toGenerate |-> <<>>,
                   generatedCode |-> <<>>,
                   toReview |-> <<>>,
                   improvedCode |-> <<>>,
                   toWrite |-> <<>>,
                   written |-> FALSE,
                   writeError |-> "",
                   tree |-> <<>>,
                   runInstructions |-> <<>>,
                   returned |-> <<>>,
                   currentCode |-> <<>>,
                   versions |-> <<>>,
                   turns |-> 0,
                   turn |-> NoTurn]
    /\ UNCHANGED <<fs, now, calls>>

GenerateCode ==
    /\ last.op = "executeInitial"
    /\ last.pc = "decomposed"
    /\ \E ok \in BOOLEAN, answer \in AgentCodes :
          last' = [last EXCEPT
                      !.pc = IF ok THEN "generated" ELSE "thrown",
                      !.stages = Called(last, "generate", ok),
                      !.toGenerate = last.stepsJson,
                      !.generatedCode = IF ok THEN answer ELSE <<>>]
    /\ UNCHANGED <<fs, now, calls>>

\* reviewCode: analyzeCode and the review chain are both invoked with the
\* generated code; either may throw; the answer of the chain is trimmed
ReviewCode ==
    /\ last.op = "executeInitial"
    /\ last.pc = "generated"
    /\ \E ok \in BOOLEAN, answer \in AgentCodes :
          last' = [last EXCEPT
                      !.pc = IF ok THEN "reviewed" ELSE "thrown",
                      !.stages = Called(last, "review", ok),
                      !.toReview = last.generatedCode,
                      !.improvedCode = IF ok THEN Trim(answer) ELSE <<>>]
    /\ UNCHANGED <<fs, now, calls>>

\* a step 4 that also runs after the review has thrown, with the code the
\* coding agent generated
WriteReviewed_evenUnreviewed ==
    /\ last.op = "executeInitial"
    /\ \/ last.pc = "reviewed"
       \/ last.pc = "thrown" /\ last.generatedCode # <<>>
    /\ \E fault \in 0..MaxFault :
          \E r \in {writeFiles(fs, last.userTask,
                               IF last.pc = "reviewed" THEN last.improvedCode
                               ELSE last.generatedCode, fault, now)} :
             /\ fs' = r.w.fs
             /\ last' = [last EXCEPT
                            !.pc = "returned",
                            !.stages = Called(last, "write", r.err = NoError),
                            !.toWrite = IF last.pc = "reviewed"
                                        THEN last.improvedCode
                                        ELSE last.generatedCode,
                            !.written = r.err = NoError]
    /\ calls' = calls + 1
    /\ UNCHANGED now

\* a step 4 without its try block: an error of writeFiles leaves
\* executeInitial
WriteReviewed_uncaught ==
    /\ last.op = "executeInitial"
    /\ last.pc = "reviewed"
    /\ \E fault \in 0..MaxFault :
          \E r \in {writeFiles(fs, last.userTask, last.improvedCode, fault, now)} :
             /\ fs' = r.w.fs
             /\ last' = [last EXCEPT
                            !.pc = IF r.err = NoError THEN "returned" ELSE "thrown",
                            !.stages = Called(last, "write", r.err = NoError),
                            !.toWrite = last.improvedCode,
                            !.written = r.err = NoError,
                            !.writeError = r.err.kind,
                            !.tree = IF r.err = NoError
                                     THEN generateDirectoryTreeFromFilesystem(
                                              r.w.fs, r.folderPath)
                                     ELSE <<>>,
                            !.returned = IF r.err = NoError
                                         THEN last.improvedCode ELSE <<>>]
    /\ calls' = calls + 1
    /\ UNCHANGED now

\* step 4 and the return: writeFiles with the improved code, then the tree
\* and the run instructions of the folder it returned (entries is the
\* listing of that folder, in any order); an error of writeFiles skips
\* both and is caught; executeInitial returns the improved code in both
\* cases, and main stores it as the current code
WriteReviewed ==
    /\ last.op = "executeInitial"
    /\ last.pc = "reviewed"
    /\ \E fault \in 0..MaxFault :
          \E r \in {writeFiles(fs, last.userTask, last.improvedCode, fault, now)} :
          \E entries \in
                {e \in {<<>>} \cup SeqsUpTo(Readdir(r.w.fs, r.folderPath),
                                           Cardinality(Readdir(r.w.fs, r.folderPath))) :
                    /\ r.err = NoError =>
                          /\ Len(e) = Cardinality(Readdir(r.w.fs, r.folderPath))
                          /\ {e[k] : k \in DOMAIN e} = Readdir(r.w.fs, r.folderPath)
                    /\ r.err # NoError => e = <<>>} :
             /\ fs' = r.w.fs
             /\ last' = [last EXCEPT
                            !.pc = "returned",
                            !.stages = Called(last, "write", r.err = NoError),
                            !.toWrite = last.improvedCode,
                            !.written = r.err = NoError,
                            !.writeError = r.err.kind,
                            !.tree = IF r.err = NoError
                                     THEN generateDirectoryTreeFromFilesystem(
                                              r.w.fs, r.folderPath)
                                     ELSE <<>>,
                            !.runInstructions =
                                     IF r.err = NoError
                                     THEN generateRunInstructions(
                                              r.w.fs, r.folderPath, entries)
                                     ELSE <<>>,
                            !.returned = last.improvedCode,
                            !.currentCode = last.improvedCode,
                            !.versions = <<last.improvedCode>>]
    /\ calls' = calls + 1
    /\ UNCHANGED now

NextPipeline == Decompose \/ GenerateCode \/ ReviewCode \/ WriteReviewed

SpecPipeline == InitCommon /\ [][NextPipeline]_vars

StageOrder == <<"decompose", "generate", "review", "write">>

Began(stage) == \E k \in DOMAIN last.stages : last.stages[k].stage = stage

\* C17: the stages begun are an initial part of decomposition, generation,
\* review, writing, each begun after all stages before it have completed
\* successfully; generation is called with the decomposition result, review
\* with the generated code and writing with the reviewed code; and when one
\* of the three agents has failed, nothing is on disk.
C17_StagesInOrder ==
    last.op = "executeInitial" =>
       /\ Len(last.stages) <= 4
       /\ \A k \in DOMAIN last.stages :
             /\ last.stages[k].stage = StageOrder[k]
             /\ k < Len(last.stages) => last.stages[k].ok
       /\ last.toDecompose = last.userTask
       /\ Began("generate") =>
             last.toGenerate = last.stepsJson /\ last.stepsJson \in StepsJsons
       /\ Began("review") =>
             last.toReview = last.generatedCode /\ last.generatedCode \in AgentCodes
       /\ Began("write") =>
             /\ last.toWrite = last.improvedCode
             /\ \E c \in AgentCodes : last.improvedCode = Trim(c)
       /\ ~Began("write") => fs = EmptyFs
       /\ (\E k \in 1..3 : k \in DOMAIN last.stages /\ ~last.stages[k].ok) =>
             /\ ~Began("write")
             /\ last.pc = "thrown"

\* a run whose review has failed after decomposition and generation have
\* succeeded: the writing stage has not begun and the disk is untouched
C17_Witness ==
    /\ last.op = "executeInitial"
    /\ Len(last.stages) = 3
    /\ last.stages[1].ok /\ last.stages[2].ok /\ ~last.stages[3].ok
    /\ last.generatedCode = MdOne
    /\ fs = EmptyFs

\* a run through all four stages that has written the reviewed code
C17_WitnessWritten ==
    /\ last.op = "executeInitial"
    /\ Len(last.stages) = 4
    /\ last.written
    /\ last.improvedCode = MdOne
    /\ fs # EmptyFs

(***************************************************************************)
(* The whole-text fallback (specification SpecParse).                      *)
(***************************************************************************)

\* a parseCodeFiles call on a text that is not blank and has no fenced block
FallbackCase ==
    /\ last.op = "parseCodeFiles"
    /\ NoFence(last.md)
    /\ Trim(last.md) # <<>>

\* the text without its heading prefixes, trimmed
Cleaned == Trim(StripHeadings(last.md, 1))

FallbackMarks == {"#", "*", "BACKTICK", "[", "]"}

\* C18: a text without fenced block becomes the single file main<ext> if
\* and only if the first character of the trimmed text with its heading
\* markers stripped is none of #, *, U+0060, [ and ], or the text contains
\* function, class or import; otherwise no file is emitted, whatever its
\* later lines begin with.
C18_Original ==
    FallbackCase =>
       IF \/ (Cleaned # <<>> /\ Cleaned[1] \notin FallbackMarks)
          \/ ~NoMarkers(last.md)
       THEN /\ Len(last.files) = 1
            /\ last.files[1].content = Cleaned
            /\ Prefix(last.files[1].filePath, 5) = <<"m", "a", "i", "n", ".">>
       ELSE last.files = <<>>

\* what the code does: the file is emitted if and only if some line of the
\* cleaned text begins with a character that is none of the five (a line
\* break of an empty line included), or the text contains one of the words
C18_AnyLineStart ==
    FallbackCase =>
       IF \/ ~EveryLineMarked(Cleaned)
          \/ ~NoMarkers(last.md)
       THEN /\ Len(last.files) = 1
            /\ last.files[1].content = Cleaned
            /\ Prefix(last.files[1].filePath, 5) = <<"m", "a", "i", "n", ".">>
       ELSE last.files = <<>>

\* the text "*", line break, "a": a file although its first character is *
C18_LaterLine ==
    /\ FallbackCase
    /\ last.md = <<"*", "\n", "a">>
    /\ Len(last.files) = 1
    /\ last.files[1].filePath = <<"m", "a", "i", "n", ".", "j", "s">>

(***************************************************************************)
(* Several File: declarations in one body (specification SpecParse).       *)
(***************************************************************************)

\* C19: a non-blank block without an explicit path whose body holds File:
\* declarations is emitted under the path of the declaration that comes
\* first in the body, whatever its comment style.
C19_Original ==
    ParsedAccepted =>
       /\ Len(last.files) = Len(Accepted(last.blocks))
       /\ \A k \in 1..Len(Accepted(last.blocks)) :
             (/\ ~HasPath(Accepted(last.blocks)[k])
              /\ Accepted(last.blocks)[k].body.decl # <<>>) =>
                last.files[k].filePath = Accepted(last.blocks)[k].body.decl[1]

\* a body with "# File: c.py" on its first line and "// File: b.js" on its
\* second is emitted as b.js
C19_SlashStyleFirst ==
    /\ ParsedBlocks
    /\ Len(last.blocks) = 1
    /\ last.blocks[1].header = HeaderNone
    /\ last.blocks[1].body = BodyTwo
    /\ Len(last.files) = 1
    /\ last.files[1].filePath = <<"b", ".", "j", "s">>

\* with one declaration in the body, its path is the path of the file
C19_SingleDeclaration ==
    ParsedAccepted =>
       \A k \in 1..Len(Accepted(last.blocks)) :
          (/\ ~HasPath(Accepted(last.blocks)[k])
           /\ Len(Accepted(last.blocks)[k].body.decl) = 1) =>
             last.files[k].filePath = Accepted(last.blocks)[k].body.decl[1]

(***************************************************************************)
(* The folder name of a task (specification SpecSanitize).                 *)
(***************************************************************************)

NameChars == Lower \cup Upper \cup Digit \cup {"_", "-"}

\* the task without the characters that are neither name characters nor
\* white space, trimmed
KeptTrimmed == Trim(SelectSeq(last.task, LAMBDA c : c \in NameChars \/ IsWs(c)))

\* the task without the characters outside [A-Za-z0-9 _-], trimmed
KeptSpacesTrimmed ==
    Trim(SelectSeq(last.task, LAMBDA c : c \in NameChars \cup {" "}))

\* the positions of t, in order, that are not white space or begin a white
\* space run
RunStarts(t) ==
    SelectSeq([i \in 1..Len(t) |-> i],
              LAMBDA i : ~IsWs(t[i]) \/ i = 1 \/ ~IsWs(t[i - 1]))

UnderscoredAt(t, starts) ==
    [k \in 1..Len(starts) |-> IF IsWs(t[starts[k]]) THEN "_" ELSE t[starts[k]]]

\* t with every white space run replaced by one underscore
Underscored(t) == UnderscoredAt(t, RunStarts(t))

NameOrFallback(name) ==
    IF name = <<>> THEN <<"c","o","d","i","n","g","_","t","a","s","k">> ELSE name

Callers == {"A", "B"}

\* a file at the top, a file in a subdirectory, and a file below a file
\* (whose write fails)
RaceMarkdowns == {MdOne, MdDir, MdTwo}

IdleCall ==
    [pc |-> "idle", task |-> <<>>, folderName |-> <<>>, parsedFiles |-> <<>>,
     stat |-> "", timestamp |-> 0, branch |-> "", existed |-> FALSE,
     target |-> <<>>, err |-> NoError, folderPath |-> <<>>, files |-> <<>>]

CallOf(c) == IF last.op = "race" THEN last.call[c] ELSE IdleCall

SetCall(c, rec) ==
    [op |-> "race", call |-> [d \in Callers |-> IF d = c THEN rec ELSE CallOf(d)]]

World == [fs |-> fs, n |-> 0, log |-> <<>>]

\* writeFiles up to its first await: the markdown is parsed, the folder
\* name derived, and fs.stat(folderPath) answers for the filesystem as it
\* is now; in the branch of an existing directory Date.now() is read
StatFolder(c) ==
    /\ last.op \in {"none", "race"}
    /\ CallOf(c).pc = "idle"
    /\ \E task \in Tasks, codeMarkdown \in RaceMarkdowns :
          last' = SetCall(c,
             [IdleCall EXCEPT
                 !.pc = "statted",
                 !.task = task,
                 !.folderName = sanitizeFolderName(task),
                 !.parsedFiles = parseCodeFiles(codeMarkdown),
                 !.timestamp = now,
                 !.stat = IF IsDir(fs, FolderPath(sanitizeFolderName(task)))
                          THEN "directory"
                          ELSE IF IsFile(fs, FolderPath(sanitizeFolderName(task)))
                               THEN "file" ELSE "absent"])
    /\ UNCHANGED <<fs, now, calls>>

\* the continuation after the first await: ensureDirectory of the unique
\* folder (try block), of the derived folder (catch block), or nothing when
\* stat found a regular file; existed tells whether the directory was
\* there when ensureDirectory was called
EnsureFolder(c) ==
    /\ last.op = "race"
    /\ CallOf(c).pc \in {"statted", "caught"}
    /\ \E branch \in {IF CallOf(c).pc = "caught" \/ CallOf(c).stat = "absent"
                      THEN "catch"
                      ELSE IF CallOf(c).stat = "directory" THEN "try"
                      ELSE "after"} :
       \E target \in {IF branch = "try"
                      THEN FolderPath(UniqueFolderName(CallOf(c).folderName,
                                                       CallOf(c).timestamp))
                      ELSE FolderPath(CallOf(c).folderName)} :
       \E r \in {IF branch = "after" THEN [w |-> World, err |-> NoError]
                 ELSE ensureDirectory(World, target, 0)} :
          /\ fs' = r.w.fs
          /\ last' = SetCall(c,
                [CallOf(c) EXCEPT
                    !.branch = branch,
                    !.target = target,
                    !.existed = IsDir(fs, target),
                    !.err = IF branch = "try" THEN NoError ELSE r.err,
                    !.pc = IF r.err = NoError THEN "ensured"
                           ELSE IF branch = "try" THEN "caught"
                           ELSE "done"])
    /\ UNCHANGED <<now, calls>>

\* writeFilesToFolder(target, parsedFiles); its rejection inside the try
\* block is caught by the catch of writeFiles
WriteFolder(c) ==
    /\ last.op = "race"
    /\ CallOf(c).pc = "ensured"
    /\ \E r \in {writeFilesToFolder(World, CallOf(c).target,
                                    CallOf(c).parsedFiles, 0)} :
          /\ fs' = r.w.fs
          /\ last' = SetCall(c,
                IF r.err # NoError /\ CallOf(c).branch = "try"
                THEN [CallOf(c) EXCEPT !.pc = "caught"]
                ELSE [CallOf(c) EXCEPT
                         !.pc = "done",
                         !.err = r.err,
                         !.folderPath = r.folderPath,
                         !.files = r.files])
    /\ UNCHANGED <<now, calls>>

\* another process creates the folder of some task in the base directory
ExternalMkdir ==
    /\ \E task \in Tasks :
          /\ ~IsDir(fs, FolderPath(sanitizeFolderName(task)))
          /\ ~IsFile(fs, FolderPath(sanitizeFolderName(task)))
          /\ fs' = [fs EXCEPT !.dirs = @ \cup {FolderPath(sanitizeFolderName(task))}]
    /\ UNCHANGED <<now, calls, last>>

NextRace ==
    \/ \E c \in Callers : StatFolder(c)
    \/ \E c \in Callers : EnsureFolder(c)
    \/ \E c \in Callers : WriteFolder(c)
    \/ ExternalMkdir
    \/ Tick

SpecRace == InitCommon /\ [][NextRace]_vars

\* the call of c found no folder at its check, and the folder was there
\* when the call went on to create it
Overtaken(c) ==
    /\ last.op = "race"
    /\ last.call[c].stat = "absent"
    /\ last.call[c].pc \in {"ensured", "done"}
    /\ last.call[c].existed

\* C21: a call that found the derived folder absent and then finds it
\* created by someone else does not fail on creating it and does not use a
\* timestamped folder: it goes on with the derived folder, and on success
\* returns that folder with its files in it.
C21_CheckThenActRace ==
    \A c \in Callers :
       Overtaken(c) =>
          /\ last.call[c].target = Append(BasePath, last.call[c].folderName)
          /\ last.call[c].err.kind # "Failed to create directory"
          /\ (last.call[c].pc = "done" /\ last.call[c].err.kind = "") =>
                /\ last.call[c].folderPath = last.call[c].target
                /\ \A k \in DOMAIN last.call[c].files :
                      Join(last.call[c].target, last.call[c].files[k]).path
                         \in DOMAIN fs.files

\* two calls for the same task that both found the folder absent have both
\* returned it, one with main.js in it and the other with d/f
C21_Witness ==
    /\ last.op = "race"
    /\ \A c \in Callers :
          /\ last.call[c].stat = "absent"
          /\ last.call[c].pc = "done"
          /\ last.call[c].err.kind = ""
          /\ last.call[c].folderPath = <<<<"w">>, <<"a">>>>
    /\ Overtaken("B")
    /\ last.call["A"].files # last.call["B"].files
    /\ {<<<<"w">>, <<"a">>, <<"m", "a", "i", "n", ".", "j", "s">>>>,
        <<<<"w">>, <<"a">>, <<"d">>, <<"f">>>>} \subseteq DOMAIN fs.files

\* a call overtaken by another process, not by a call
C21_WitnessExternal ==
    /\ Overtaken("A")
    /\ last.call["A"].pc = "done"
    /\ last.call["A"].err.kind = ""
    /\ last.call["B"].pc = "idle"

(***************************************************************************)
(* The end of the initial pipeline (specification SpecPipeline).           *)
(***************************************************************************)

\* C24: once the three agents have succeeded, the writing stage always
\* ends with executeInitial returning the reviewed code, whether writeFiles
\* failed (no files, directory creation, file write) or not, and the tree
\* and the run instructions are produced exactly when writeFiles succeeded.
C24_WriteFailureIsNotFatal ==
    (last.op = "executeInitial" /\ Began("write")) =>
       /\ last.pc \in {"returned", "exited"}
       /\ last.returned = last.improvedCode
       /\ last.written <=> last.writeError = ""
       /\ last.written <=> last.tree # <<>>
       /\ last.written <=> last.runInstructions # <<>>
       /\ ~last.written => last.writeError \in
             {"No files found in generated code", "Failed to create directory",
              "Failed to write file"}

\* a run whose reviewed code has no file in it: writeFiles has failed, the
\* reviewed code is returned, there is no tree and no instruction
C24_Witness ==
    /\ last.op = "executeInitial"
    /\ Began("write")
    /\ last.writeError = "No files found in generated code"
    /\ last.pc = "returned"
    /\ last.returned = last.improvedCode
    /\ last.improvedCode # <<>>
    /\ last.tree = <<>>
    /\ last.runInstructions = <<>>

\* a run whose write of a file has failed
C24_WitnessWriteFailed ==
    /\ last.op = "executeInitial"
    /\ last.writeError = "Failed to write file"
    /\ last.pc = "returned"
    /\ last.returned = last.improvedCode

(***************************************************************************)
(* Specification SpecSession: main of index.js.  The initial pipeline is   *)
(* followed by the turns of the interaction loop: an input is read and is  *)
(* an exit command, blank, or a modification request that improveCode      *)
(* answers or rejects.                                                     *)
(***************************************************************************)

MaxTurns == 2

\* exit commands as typed, blank inputs, requests, and a request that
\* begins with an exit command
UserInputs ==
    {<<"e", "x", "i", "t">>, <<" ", "E", "x", "i", "t", " ">>, <<"Q", "U", "I", "T">>, <<>>, <<" ">>, <<"F", "i", "x">>, <<"e", "x", "i", "t", " ", "n", "o", "w">>}

\* answers of the modification chain: other code, and a blank answer
ModifiedCodes == {MdTwo, <<" ">> \o MdSame \o <<"\n">>, <<" ", "\n">>}

\* a turn that stores the answer of a failed improveCode as well
Prompt_storeFailed ==
    /\ last.op = "executeInitial"
    /\ last.pc = "returned"
    /\ last.turns < MaxTurns
    /\ \E userInput \in UserInputs, ok \in BOOLEAN, answer \in ModifiedCodes :
       \E trimmedInput \in {toLowerCase(Trim(userInput))} :
          last' = IF trimmedInput \in {<<"e", "x", "i", "t">>, <<"q", "u", "i", "t">>}
                  THEN [last EXCEPT !.pc = "exited", !.turns = @ + 1,
                           !.turn = [NoTurn EXCEPT !.input = userInput]]
                  ELSE IF trimmedInput = <<>> \/ last.currentCode = <<>>
                  THEN [last EXCEPT !.turns = @ + 1,
                           !.turn = [NoTurn EXCEPT !.input = userInput]]
                  ELSE [last EXCEPT !.turns = @ + 1,
                           !.turn = [input |-> userInput, called |-> TRUE,
                                     code |-> last.currentCode,
                                     request |-> trimmedInput, ok |-> ok],
                           !.currentCode = Trim(answer),
                           !.versions = IF ok THEN Append(@, Trim(answer)) ELSE @]
    /\ UNCHANGED <<fs, now, calls>>

\* a turn that writes the modified code to disk
Prompt_rewrite ==
    /\ last.op = "executeInitial"
    /\ last.pc = "returned"
    /\ last.turns < MaxTurns
    /\ \E userInput \in UserInputs, ok \in BOOLEAN, answer \in ModifiedCodes :
       \E trimmedInput \in {toLowerCase(Trim(userInput))} :
          /\ last' = IF trimmedInput \in {<<"e", "x", "i", "t">>, <<"q", "u", "i", "t">>}
                     THEN [last EXCEPT !.pc = "exited", !.turns = @ + 1,
                              !.turn = [NoTurn EXCEPT !.input = userInput]]
                     ELSE IF trimmedInput = <<>> \/ last.currentCode = <<>>
                     THEN [last EXCEPT !.turns = @ + 1,
                              !.turn = [NoTurn EXCEPT !.input = userInput]]
                     ELSE [last EXCEPT !.turns = @ + 1,
                              !.turn = [input |-> userInput, called |-> TRUE,
                                        code |-> last.currentCode,
                                        request |-> trimmedInput, ok |-> ok],
                              !.currentCode = IF ok THEN Trim(answer) ELSE @,
                              !.versions = IF ok THEN Append(@, Trim(answer)) ELSE @]
          /\ fs' = IF trimmedInput \notin {<<"e", "x", "i", "t">>, <<"q", "u", "i", "t">>, <<>>}
                      /\ last.currentCode # <<>> /\ ok
                   THEN writeFiles(fs, last.userTask, Trim(answer), 0, now).w.fs
                   ELSE fs
    /\ UNCHANGED <<now, calls>>

\* one turn of the while loop of main: the input is read, trimmed and
\* lower-cased; exit and quit leave the loop; a blank input, or a request
\* when there is no code, goes back to the prompt; otherwise improveCode is
\* called with the current code and the lower-cased request, and its answer
\* (trimmed by reviewCodeWithModification) becomes the current code unless
\* it throws
Prompt ==
    /\ last.op = "executeInitial"
    /\ last.pc = "returned"
    /\ last.turns < MaxTurns
    /\ \E userInput \in UserInputs, ok \in BOOLEAN, answer \in ModifiedCodes :
       \E trimmedInput \in {toLowerCase(Trim(userInput))} :
          last' = IF trimmedInput \in {<<"e", "x", "i", "t">>, <<"q", "u", "i", "t">>}
                  THEN [last EXCEPT !.pc = "exited", !.turns = @ + 1,
                           !.turn = [NoTurn EXCEPT !.input = userInput]]
                  ELSE IF trimmedInput = <<>> \/ last.currentCode = <<>>
                  THEN [last EXCEPT !.turns = @ + 1,
                           !.turn = [NoTurn EXCEPT !.input = userInput]]
                  ELSE [last EXCEPT !.turns = @ + 1,
                           !.turn = [input |-> userInput, called |-> TRUE,
                                     code |-> last.currentCode,
                                     request |-> trimmedInput, ok |-> ok],
                           !.currentCode = IF ok THEN Trim(answer) ELSE @,
                           !.versions = IF ok THEN Append(@, Trim(answer)) ELSE @]
    /\ UNCHANGED <<fs, now, calls>>

NextSession ==
    Decompose \/ GenerateCode \/ ReviewCode \/ WriteReviewed \/ Prompt

SpecSession == InitCommon /\ [][NextSession]_vars

\* the inputs that are an exit command once trimmed and lower-cased
ExitInputs == {<<"e", "x", "i", "t">>, <<" ", "E", "x", "i", "t", " ">>, <<"Q", "U", "I", "T">>}

BlankInputs == {<<>>, <<" ">>}

InLoop == last.op = "executeInitial" /\ last.pc = "returned"

C25_WrittenOnceByPipeline ==
    [][/\ fs' # fs => (last.pc = "reviewed" /\ calls = 0 /\ calls' = 1)
       /\ (last.op = "executeInitial" /\ last.pc \in {"returned", "exited"})
             => fs' = fs
      ]_vars

\* a session whose pipeline has written the project and whose stored code
\* was then replaced by a modification: the project on disk is the one the
\* pipeline wrote
C25_Witness ==
    /\ InLoop
    /\ last.written
    /\ last.turn.called
    /\ last.turn.ok
    /\ last.currentCode = Trim(MdTwo)
    /\ last.versions[1] = MdOne
    /\ DOMAIN fs.files = {<<<<"w">>, <<"a">>, <<"m", "a", "i", "n", ".", "j", "s">>>>}

(***************************************************************************)
(* Where writeFiles writes (specification SpecTree).                       *)
(***************************************************************************)

\* the files the call has created or overwritten and the directories it
\* has created
Touched ==
    {Log[i].path : i \in {j \in DOMAIN Log : WroteAt(j)}}
        \cup (fs.dirs \ last.before.dirs)

Inside(p, folderPath) == Under(p, folderPath)

\* C23: every file and directory a writeFiles call has created or
\* overwritten is inside the folder it returns, a direct child of the base
\* directory.
C23_Original ==
    Succeeded =>
       /\ Dirname(last.result.folderPath) = BasePath
       /\ \A p \in Touched : Inside(p, last.result.folderPath)

\* the artifact paths of the call that have a ".." segment
HasDotDot(rel) == \E k \in DOMAIN Split(rel) : Split(rel)[k] = <<".", ".">>

\* what holds of C23: a call without a ".." segment in its artifact paths
\* stays inside the folder it returns
C23_ContainedWithoutDotDot ==
    (Succeeded /\ \A k \in DOMAIN Artifacts : ~HasDotDot(Artifacts[k].filePath))
       => /\ Dirname(last.result.folderPath) = BasePath
          /\ \A p \in Touched : Inside(p, last.result.folderPath)

\* the path ../a next to the path c/a: the call returns w/p and has
\* written w/a
C23_Outside ==
    /\ Succeeded
    /\ last.result.folderPath = <<<<"w">>, <<"p">>>>
    /\ <<<<"w">>, <<"a">>>> \in Touched

\* a call whose only path begins with two slashes has written inside the
\* folder
C23_DoubleSlashInside ==
    /\ Succeeded
    /\ last.result.files = << <<"/", "d">> >>
    /\ Touched = {<<<<"w">>, <<"p">>>>, <<<<"w">>, <<"p">>, <<"d">>>>}

=============================================================================
